---------------------------- MODULE Spec2Model ----------------------------
(***************************************************************************)
(* A model of the MoMo ETL transform stage: the field normalizer           *)
(* (src/etl/clean_normalize.py), the categorizer (src/etl/categorize.py)   *)
(* and the batch orchestrator (src/etl/run.py).                            *)
(*                                                                         *)
(* Python strings are sequences of one-character strings, so that the      *)
(* regular expressions and substring tests of the source are computed on   *)
(* the characters and not tabulated.  Python values are tagged records     *)
(* [t, s, n]; a float is held in hundredths (n = 150000 is 1500.0), which  *)
(* is exact for every value the amount patterns can produce (at most two   *)
(* decimals).                                                              *)
(***************************************************************************)
EXTENDS Integers, Sequences, FiniteSets, TLC

VARIABLES
    amtIn,      \* _clean_amount: the argument of the call
    amtOut,     \* _clean_amount(amtIn)
    amtOut2,    \* _clean_amount(amtOut)
    amtPc,      \* "start" | "once" | "twice"
    phIn,       \* _clean_phone_number: the argument of the call
    phOut,      \* what the call returned, or Raised
    phPc,       \* "start" | "done"
    catIn,      \* categorize_transaction: the argument as the caller built it
    catOut,     \* the value the call returned
    catArg,     \* the caller's argument after the call
    catPc,      \* "start" | "returned" | "raised"
    clIn,       \* clean_transaction: the argument as the caller built it
    clOut,      \* the value the call returned
    clArg,      \* the caller's argument after the call
    clPc,       \* "start" | "returned" | "raised"
    cbGiven,    \* categorize_batch: the list as the caller built it
    transactions,               \* the caller's list, which the calls can write into
    categorized_transactions,   \* the list the batch builds
    cbIdx,      \* position of the loop of categorize_batch, from 1
    cbPc,       \* "loop" | "returned" | "raised"
    rawGiven,   \* transform: the list as the caller built it
    raw_transactions,           \* the caller's list, which the calls can write into
    processed_transactions,     \* the list transform builds
    stats,      \* self.stats: the entries transform writes
    tfIdx,      \* position of the loop of transform, from 1
    tfPc,       \* "loop" | "returned"
    ttIn,       \* _clean_transaction_type: the argument of the call
    ttOut,      \* what the call returned
    ttPc,       \* "start" | "done"
    xmlDoc,     \* the source document: missing, malformed, or a tree of elements
    dsa_parse_sms_xml,  \* etl/parse_xml.py: "function", or "None" when its import failed
    pxCall,     \* the entry point called: parse_sms_xml | parse_xml_file | extract
    pxOut,      \* the list of records the call returned
    pxErr,      \* the exception the call raised, "" when it returned
    pxParses,   \* number of times ET.parse was run on the document
    parserStats,    \* ETLXMLParser.stats: the counters parsing writes
    pxPc,       \* "start" | "returned" | "raised"
    stGiven,    \* InMemoryStore: the records of the file that load read
    objects,    \* the record objects of the store, by identity
    store_transactions, \* store.transactions: the identities of the listed records
    id_map,     \* store.id_map: from txn_id to the identity of a record
    next_numeric_suffix,    \* store.next_numeric_suffix
    persisted,  \* the records last written by persist, <<>> before any
    stOp,       \* the last request served: "load" | "POST" | "PUT" | "DELETE"
    stKey,      \* the txn_id of that request
    stStatus,   \* the HTTP status answered
    stPc,       \* "idle" | "serving"
    runStats,   \* ETLPipeline.stats: the entries run writes
    runCount,   \* number of run() calls made on the instance
    runReturned,    \* what the last run() returned
    runPc       \* "idle" | "ready"

varsAmount == <<amtIn, amtOut, amtOut2, amtPc>>
varsPhone == <<phIn, phOut, phPc>>
varsCat == <<catIn, catOut, catArg, catPc>>
varsClean == <<clIn, clOut, clArg, clPc>>
varsBatch == <<cbGiven, transactions, categorized_transactions, cbIdx, cbPc>>
varsEtl == <<rawGiven, raw_transactions, processed_transactions, stats, tfIdx, tfPc>>
varsType == <<ttIn, ttOut, ttPc>>
varsParse == <<xmlDoc, dsa_parse_sms_xml, pxCall, pxOut, pxErr, pxParses, parserStats, pxPc>>
varsStore ==
    <<stGiven, objects, store_transactions, id_map, next_numeric_suffix, persisted,
      stOp, stKey, stStatus, stPc>>
varsRun == <<runStats, runCount, runReturned, runPc>>
vars ==
    <<varsAmount, varsPhone, varsCat, varsClean, varsBatch, varsEtl, varsType, varsParse,
      varsStore, varsRun>>

-----------------------------------------------------------------------------
(* Bounds of the model.                                                    *)

\* Longest digit string drawn as an amount numeral.
MaxAmountDigits == 4

\* Longest run of digits drawn as the subscriber part of a phone input.
MaxPhoneDigits == 10

\* Most phrases joined into one SMS body.
MaxBodyWords == 2

\* Longest list of records handed to a batch operation.
MaxBatch == 3

\* Most child elements under the root of a source document.
MaxChildren == 2

-----------------------------------------------------------------------------
(* Python values.                                                          *)

Str(s)   == [t |-> "str",   s |-> s,    n |-> 0, e |-> ""]
PyInt(n)   == [t |-> "int",   s |-> <<>>, n |-> n, e |-> ""]
Float(n) == [t |-> "float", s |-> <<>>, n |-> n, e |-> ""]   \* n hundredths
NaN      == [t |-> "nan",   s |-> <<>>, n |-> 0, e |-> ""]
Inf      == [t |-> "inf",   s |-> <<>>, n |-> 0, e |-> ""]
NegInf   == [t |-> "ninf",  s |-> <<>>, n |-> 0, e |-> ""]
None     == [t |-> "none",  s |-> <<>>, n |-> 0, e |-> ""]
Absent   == [t |-> "absent", s |-> <<>>, n |-> 0, e |-> ""]  \* key not in the dict

\* The call raised the named exception instead of returning.
Raised(e) == [t |-> "raise", s |-> <<>>, n |-> 0, e |-> e]
IsStr(v) == v.t = "str"

\* A transaction is a dict, a function from its keys to values; a caller may
\* also hand over something that is not a dict (None).
Dict(d) == [kind |-> "dict", d |-> d]
NotADict == [kind |-> "none", d |-> [k \in {} |-> None]]
IsDict(x) == x.kind = "dict"

\* The variables of an operation that is not being called.
IdleAmount == amtIn = None /\ amtOut = None /\ amtOut2 = None /\ amtPc = "idle"
IdlePhone == phIn = None /\ phOut = None /\ phPc = "idle"
IdleCat == catIn = NotADict /\ catOut = NotADict /\ catArg = NotADict /\ catPc = "idle"
IdleClean == clIn = NotADict /\ clOut = NotADict /\ clArg = NotADict /\ clPc = "idle"
IdleBatch ==
    /\ cbGiven = <<>> /\ transactions = <<>> /\ categorized_transactions = <<>>
    /\ cbIdx = 0 /\ cbPc = "idle"
IdleEtl ==
    /\ rawGiven = <<>> /\ raw_transactions = <<>> /\ processed_transactions = <<>>
    /\ stats = [failed |-> 0, errors |-> <<>>]
    /\ tfIdx = 0 /\ tfPc = "idle"
IdleType == ttIn = None /\ ttOut = None /\ ttPc = "idle"
NoRoot == [tag |-> "", attrib |-> Dict([k \in {} |-> None]), children |-> <<>>]
NoDocument == [kind |-> "none", root |-> NoRoot]
NewParserStats ==
    [total_sms |-> 0, parsed_successfully |-> 0, parsing_errors |-> 0,
     validation_errors |-> 0]
IdleStore ==
    /\ stGiven = <<>> /\ objects = <<>> /\ store_transactions = <<>>
    /\ id_map = [k \in {} |-> 0] /\ next_numeric_suffix = 1 /\ persisted = <<>>
    /\ stOp = "none" /\ stKey = <<>> /\ stStatus = 0 /\ stPc = "idle"
\* ETLPipeline.__init__: the counters of self.stats
NewRunStats == [total_processed |-> 0, successful |-> 0, failed |-> 0, errors |-> <<>>]
IdleRun ==
    /\ runStats = NewRunStats
    /\ runCount = 0 /\ runReturned = FALSE /\ runPc = "idle"
IdleParse ==
    /\ xmlDoc = NoDocument /\ dsa_parse_sms_xml = "function"
    /\ pxCall = "none" /\ pxOut = <<>> /\ pxErr = ""
    /\ pxParses = 0 /\ parserStats = NewParserStats /\ pxPc = "idle"

\* `not x`
Falsy(v) ==
    \/ v.t = "none"
    \/ v.t = "str" /\ v.s = <<>>
    \/ v.t \in {"int", "float"} /\ v.n = 0

Digit == {"0", "1", "2", "3", "4", "5", "6", "7", "8", "9"}
Whitespace == {" ", "\t", "\n"}

DigitValue(c) ==
    CASE c = "0" -> 0 [] c = "1" -> 1 [] c = "2" -> 2 [] c = "3" -> 3
      [] c = "4" -> 4 [] c = "5" -> 5 [] c = "6" -> 6 [] c = "7" -> 7
      [] c = "8" -> 8 [] c = "9" -> 9

DigitChar(d) == <<"0", "1", "2", "3", "4", "5", "6", "7", "8", "9">>[d + 1]

UpperToLower ==
    ("A" :> "a") @@ ("B" :> "b") @@ ("C" :> "c") @@ ("D" :> "d") @@
    ("E" :> "e") @@ ("F" :> "f") @@ ("G" :> "g") @@ ("H" :> "h") @@
    ("I" :> "i") @@ ("J" :> "j") @@ ("K" :> "k") @@ ("L" :> "l") @@
    ("M" :> "m") @@ ("N" :> "n") @@ ("O" :> "o") @@ ("P" :> "p") @@
    ("Q" :> "q") @@ ("R" :> "r") @@ ("S" :> "s") @@ ("T" :> "t") @@
    ("U" :> "u") @@ ("V" :> "v") @@ ("W" :> "w") @@ ("X" :> "x") @@
    ("Y" :> "y") @@ ("Z" :> "z")

LowerChar(c) == IF c \in DOMAIN UpperToLower THEN UpperToLower[c] ELSE c

\* str.lower()
Lower(s) == [i \in 1..Len(s) |-> LowerChar(s[i])]

\* str.strip()
Strip(s) ==
    LET keep == {i \in 1..Len(s) : s[i] \notin Whitespace}
    IN  IF keep = {} THEN <<>>
        ELSE LET lo == CHOOSE i \in keep : \A j \in keep : i <= j
                 hi == CHOOSE i \in keep : \A j \in keep : i >= j
             IN  SubSeq(s, lo, hi)

\* str.replace(",", "")
RECURSIVE RemoveCommas(_)
RemoveCommas(s) ==
    IF s = <<>> THEN <<>>
    ELSE IF Head(s) = "," THEN RemoveCommas(Tail(s))
    ELSE <<Head(s)>> \o RemoveCommas(Tail(s))

\* The decimal digits of a natural number.
RECURSIVE NatToStr(_)
NatToStr(n) ==
    IF n < 10 THEN <<DigitChar(n)>>
    ELSE NatToStr(n \div 10) \o <<DigitChar(n % 10)>>

\* The value of a string of decimal digits.
RECURSIVE StrToNat(_)
StrToNat(s) ==
    IF s = <<>> THEN 0
    ELSE 10 * StrToNat(SubSeq(s, 1, Len(s) - 1)) + DigitValue(s[Len(s)])

\* str(x) of a float held in hundredths: repr drops the trailing zeros of the
\* fraction and keeps one digit ("1500.0", "12.5", "12.25").
FloatToStr(n) ==
    LET a == IF n < 0 THEN -n ELSE n
        sign == IF n < 0 THEN <<"-">> ELSE <<>>
        frac == IF a % 100 = 0 THEN <<"0">>
                ELSE IF a % 10 = 0 THEN <<DigitChar((a % 100) \div 10)>>
                ELSE <<DigitChar((a % 100) \div 10), DigitChar(a % 10)>>
    IN  sign \o NatToStr(a \div 100) \o <<".">> \o frac

\* str(x)
PyStr(v) ==
    CASE v.t = "str"   -> v.s
      [] v.t = "int"   -> IF v.n < 0 THEN <<"-">> \o NatToStr(-v.n) ELSE NatToStr(v.n)
      [] v.t = "float" -> FloatToStr(v.n)
      [] v.t = "nan"   -> <<"n","a","n">>
      [] v.t = "inf"   -> <<"i","n","f">>
      [] v.t = "ninf"  -> <<"-","i","n","f">>
      [] v.t = "none"  -> <<"N","o","n","e">>

-----------------------------------------------------------------------------
(* Regular-expression pieces shared by the amount patterns.                *)

\* s[i..i+n-1] are n digits: \d{n}
DigitsAt(s, i, n) ==
    /\ i >= 1
    /\ i + n - 1 <= Len(s)
    /\ \A j \in i..(i + n - 1) : s[j] \in Digit

\* lit (lower case) stands at s[p..], case-insensitively (re.IGNORECASE)
LitAt(s, p, lit) ==
    /\ p >= 1
    /\ p + Len(lit) - 1 <= Len(s)
    /\ \A j \in 1..Len(lit) : LowerChar(s[p + j - 1]) = lit[j]

\* \s* from p: the first position at or after p that holds no whitespace
SkipWs(s, p) ==
    LET stop == {q \in p..(Len(s) + 1) : q = Len(s) + 1 \/ s[q] \notin Whitespace}
    IN  CHOOSE q \in stop : \A r \in stop : q <= r

\* (\d{1,3}(?:,\d{3})*(?:\.\d{2})?) at s[i..] with d leading digits, g comma
\* groups and f in {0,1} fractions
NumLen(d, g, f) == d + 4 * g + 3 * f

NumberAt(s, i, d, g, f) ==
    /\ DigitsAt(s, i, d)
    /\ \A k \in 0..(g - 1) :
          /\ i + d + 4 * k <= Len(s)
          /\ s[i + d + 4 * k] = ","
          /\ DigitsAt(s, i + d + 4 * k + 1, 3)
    /\ f = 1 =>
          /\ i + d + 4 * g <= Len(s)
          /\ s[i + d + 4 * g] = "."
          /\ DigitsAt(s, i + d + 4 * g + 1, 2)

\* Every way the number sub-pattern can match somewhere in s: <<i, d, g, f>>
NumberMatches(s) ==
    {c \in (1..Len(s)) \X (1..3) \X (0..(Len(s) \div 4)) \X {0, 1} :
        NumberAt(s, c[1], c[2], c[3], c[4])}

\* The match the backtracking engine returns among the candidates C: the
\* leftmost start, then the greedy choices in pattern order (most leading
\* digits, then most comma groups, then the fraction taken).
Before(a, b) ==
    \/ a[1] < b[1]
    \/ a[1] = b[1] /\ a[2] > b[2]
    \/ a[1] = b[1] /\ a[2] = b[2] /\ a[3] > b[3]
    \/ a[1] = b[1] /\ a[2] = b[2] /\ a[3] = b[3] /\ a[4] >= b[4]

FirstOf(C) == CHOOSE a \in C : \A b \in C : Before(a, b)

NoMatch == [ok |-> FALSE, g |-> <<>>]
Group(s, lo, hi) == [ok |-> TRUE, g |-> SubSeq(s, lo, hi)]

\* \s*RWF at p
RwfAfterWs(s, p) == LitAt(s, SkipWs(s, p), <<"r","w","f">>)

\* The maximal run of digits from p (\d+, greedy): its last index
DigitRunEnd(s, p) ==
    LET ends == {e \in p..Len(s) : \A j \in p..e : s[j] \in Digit}
    IN  CHOOSE e \in ends : \A x \in ends : e >= x

-----------------------------------------------------------------------------
(* DataCleaner.amount_patterns, each as re.search(pattern, s, IGNORECASE)  *)
(* returning match.group(1).                                               *)

\* r"(\d{1,3}(?:,\d{3})*(?:\.\d{2})?)\s*RWF"
AmountPattern1(s) ==
    LET C == {c \in NumberMatches(s) :
                 RwfAfterWs(s, c[1] + NumLen(c[2], c[3], c[4]))}
    IN  IF C = {} THEN NoMatch
        ELSE LET c == FirstOf(C)
             IN  Group(s, c[1], c[1] + NumLen(c[2], c[3], c[4]) - 1)

\* r"(\d{1,3}(?:,\d{3})*(?:\.\d{2})?)"
AmountPattern2(s) ==
    LET C == NumberMatches(s)
    IN  IF C = {} THEN NoMatch
        ELSE LET c == FirstOf(C)
             IN  Group(s, c[1], c[1] + NumLen(c[2], c[3], c[4]) - 1)

\* r"RWF\s*(\d{1,3}(?:,\d{3})*(?:\.\d{2})?)"
AmountPattern3(s) ==
    LET R == {r \in 1..Len(s) :
                 /\ LitAt(s, r, <<"r","w","f">>)
                 /\ \E c \in NumberMatches(s) : c[1] = SkipWs(s, r + 3)}
    IN  IF R = {} THEN NoMatch
        ELSE LET r == CHOOSE x \in R : \A y \in R : x <= y
                 c == FirstOf({x \in NumberMatches(s) : x[1] = SkipWs(s, r + 3)})
             IN  Group(s, c[1], c[1] + NumLen(c[2], c[3], c[4]) - 1)

\* r"(\d+)\s*RWF"
AmountPattern4(s) ==
    LET C == {c \in (1..Len(s)) \X (1..Len(s)) :
                 /\ c[1] <= c[2]
                 /\ \A j \in c[1]..c[2] : s[j] \in Digit
                 /\ RwfAfterWs(s, c[2] + 1)}
    IN  IF C = {} THEN NoMatch
        ELSE LET c == CHOOSE a \in C : \A b \in C :
                          a[1] < b[1] \/ (a[1] = b[1] /\ a[2] >= b[2])
             IN  Group(s, c[1], c[2])

\* r"RWF\s*(\d+)"
AmountPattern5(s) ==
    LET R == {r \in 1..Len(s) :
                 /\ LitAt(s, r, <<"r","w","f">>)
                 /\ SkipWs(s, r + 3) <= Len(s)
                 /\ s[SkipWs(s, r + 3)] \in Digit}
    IN  IF R = {} THEN NoMatch
        ELSE LET r == CHOOSE x \in R : \A y \in R : x <= y
                 p == SkipWs(s, r + 3)
             IN  Group(s, p, DigitRunEnd(s, p))

amount_patterns(k, s) ==
    CASE k = 1 -> AmountPattern1(s)
      [] k = 2 -> AmountPattern2(s)
      [] k = 3 -> AmountPattern3(s)
      [] k = 4 -> AmountPattern4(s)
      [] k = 5 -> AmountPattern5(s)

\* for pattern in self.amount_patterns: match = re.search(...); if match: break
FirstAmountMatch(s) ==
    LET hit == {k \in 1..5 : amount_patterns(k, s).ok}
    IN  IF hit = {} THEN NoMatch
        ELSE amount_patterns(CHOOSE k \in hit : \A j \in hit : k <= j, s)

\* float(Decimal(s)) for the strings that can reach it.  A string that holds a
\* digit has been replaced by a group of the patterns (digits, optionally
\* followed by "." and two digits); a string without digits is a Decimal only
\* when it spells a signed infinity or NaN.  "bad" is InvalidOperation, or the
\* ValueError float() raises for a signalling NaN.
DecimalToFloat(s) ==
    LET l == Lower(s)
        neg == l # <<>> /\ l[1] = "-"
        body == IF l # <<>> /\ l[1] \in {"-", "+"} THEN Tail(l) ELSE l
        dot == {i \in 1..Len(body) : body[i] = "."}
    IN  IF body # <<>> /\ \A i \in 1..Len(body) : body[i] \in Digit
            THEN Float((IF neg THEN -1 ELSE 1) * 100 * StrToNat(body))
        ELSE IF /\ dot = {Len(body) - 2}
                /\ Len(body) >= 4
                /\ \A i \in 1..Len(body) : i \in dot \/ body[i] \in Digit
            THEN Float((IF neg THEN -1 ELSE 1) *
                       (100 * StrToNat(SubSeq(body, 1, Len(body) - 3))
                        + StrToNat(SubSeq(body, Len(body) - 1, Len(body)))))
        ELSE IF body \in {<<"i","n","f">>, <<"i","n","f","i","n","i","t","y">>}
            THEN (IF neg THEN NegInf ELSE Inf)
        ELSE IF body = <<"n","a","n">> THEN NaN
        ELSE [t |-> "bad", s |-> <<>>, n |-> 0, e |-> ""]

\* DataCleaner._clean_amount
_clean_amount(amount_str) ==
    IF Falsy(amount_str) THEN Float(0)
    ELSE LET stripped == Strip(PyStr(amount_str))
             match == FirstAmountMatch(stripped)
             group == IF match.ok THEN match.g ELSE stripped
             value == DecimalToFloat(RemoveCommas(group))
         IN  IF value.t = "bad" THEN Float(0) ELSE value

-----------------------------------------------------------------------------
(* Inputs of the amount checks.                                            *)

AmountDigits == {"0", "1", "5"}

RECURSIVE DigitStrings(_)
DigitStrings(n) ==
    IF n = 0 THEN {<<>>}
    ELSE {<<d>> \o s : d \in AmountDigits, s \in DigitStrings(n - 1)}

\* Non-negative integer numerals of up to MaxAmountDigits digits
Numerals == UNION {DigitStrings(n) : n \in 1..MaxAmountDigits}

\* The numeral written with comma thousands separators: "1500" -> "1,500"
RECURSIVE WithCommas(_)
WithCommas(s) ==
    IF Len(s) <= 3 THEN s
    ELSE WithCommas(SubSeq(s, 1, Len(s) - 3)) \o <<",">> \o SubSeq(s, Len(s) - 2, Len(s))

\* The written forms of a numeral the amount rule names
NumeralForms(s) ==
    {pre \o w \o suf : w \in {s, WithCommas(s)},
                       pre \in {<<>>}, suf \in {<<>>, <<" ","R","W","F">>}}
    \cup {<<"R","W","F"," ">> \o w : w \in {s, WithCommas(s)}}

NoNumeralStrings ==
    {<<"a","b","c">>, <<"R","W","F">>, <<"N","a","N">>, <<"-","I","n","f","i","n","i","t","y">>, <<"i","n","f">>, <<"s","N","a","N">>, <<"-">>}

AmountStrings ==
    UNION {NumeralForms(s) : s \in Numerals}
    \cup NoNumeralStrings
    \cup {<<"1",",","5","0","0",".","5","0">>, <<"1","2",".","5">>, <<"-","5","0","0">>, <<>>}

AmountInputs ==
    {Str(s) : s \in AmountStrings}
    \cup {None, PyInt(0), PyInt(1500), PyInt(250), Float(150000), Float(25000), Float(1250), NaN}

-----------------------------------------------------------------------------
(* _clean_amount called on an input, and again on its own result.          *)

InitAmount ==
    /\ amtIn \in AmountInputs
    /\ amtOut = None
    /\ amtOut2 = None
    /\ amtPc = "start"
    /\ IdlePhone /\ IdleCat /\ IdleClean /\ IdleBatch /\ IdleEtl /\ IdleType /\ IdleParse
    /\ IdleStore /\ IdleRun

CleanAmount ==
    /\ amtPc = "start"
    /\ amtOut' = _clean_amount(amtIn)
    /\ amtPc' = "once"
    /\ UNCHANGED <<amtIn, amtOut2, varsPhone, varsCat, varsClean, varsBatch, varsEtl, varsType, varsParse,
                   varsStore, varsRun>>

CleanAmountAgain ==
    /\ amtPc = "once"
    /\ amtOut2' = _clean_amount(amtOut)
    /\ amtPc' = "twice"
    /\ UNCHANGED <<amtIn, amtOut, varsPhone, varsCat, varsClean, varsBatch, varsEtl, varsType, varsParse,
                   varsStore, varsRun>>

NextAmount == CleanAmount \/ CleanAmountAgain

SpecAmount == InitAmount /\ [][NextAmount]_vars

-----------------------------------------------------------------------------
(* DataCleaner._clean_phone_number                                         *)

\* self.phone_patterns: (literal prefix, then (\d{9})) -> r"+250\1"
phone_patterns ==
    << <<"+","2","5","0">>,   \* r"\+250(\d{9})"
       <<"2","5","0">>,    \* r"250(\d{9})"
       <<"0">>,      \* r"0(\d{9})"
       <<>> >>      \* r"(\d{9})"

SubscriberDigits == 9

\* pattern k matches s at position p (no re.IGNORECASE here: the prefixes hold
\* no letters)
PhoneMatchAt(k, s, p) ==
    /\ p + Len(phone_patterns[k]) - 1 <= Len(s)
    /\ \A j \in 1..Len(phone_patterns[k]) : s[p + j - 1] = phone_patterns[k][j]
    /\ DigitsAt(s, p + Len(phone_patterns[k]), SubscriberDigits)

\* re.sub(pattern, r"+250\1", s): every non-overlapping match from the left,
\* anywhere in s, is rewritten; the other characters are kept.
RECURSIVE PhoneSub(_, _, _)
PhoneSub(k, s, p) ==
    IF p > Len(s) THEN <<>>
    ELSE IF PhoneMatchAt(k, s, p)
        THEN <<"+","2","5","0">>
             \o SubSeq(s, p + Len(phone_patterns[k]),
                          p + Len(phone_patterns[k]) + SubscriberDigits - 1)
             \o PhoneSub(k, s, p + Len(phone_patterns[k]) + SubscriberDigits)
    ELSE <<s[p]>> \o PhoneSub(k, s, p + 1)

\* The rewrite with the last matching rule applied, not the first
PhoneRewriteLastRule(s) ==
    LET hit == {k \in 1..Len(phone_patterns) : PhoneMatchAt(k, s, 1)}
    IN  IF hit = {} THEN s
        ELSE PhoneSub(CHOOSE k \in hit : \A j \in hit : k >= j, s, 1)

\* for pattern, replacement in self.phone_patterns:
\*     if re.match(pattern, phone): phone = re.sub(...); break
PhoneRewrite(s) ==
    LET hit == {k \in 1..Len(phone_patterns) : PhoneMatchAt(k, s, 1)}
    IN  IF hit = {} THEN s
        ELSE PhoneSub(CHOOSE k \in hit : \A j \in hit : k <= j, s, 1)

\* if re.match(r"\+250\d{9}", phone): the final validation
PhoneIsValid(s) == PhoneMatchAt(1, s, 1)

Unknown == Str(<<"U","n","k","n","o","w","n">>)

_clean_phone_number(phone) ==
    IF Falsy(phone) THEN Unknown
    ELSE IF ~IsStr(phone) THEN Raised("AttributeError")   \* phone.strip()
    ELSE IF Strip(phone.s) = <<>> \/ Lower(phone.s) = <<"u","n","k","n","o","w","n">> THEN Unknown
    ELSE LET rewritten == PhoneRewrite(Strip(phone.s))
         IN  IF PhoneIsValid(rewritten) THEN Str(rewritten) ELSE Unknown

-----------------------------------------------------------------------------
(* Inputs of the phone checks: a prefix, a run of digits, a suffix.        *)

DigitStream == <<"7","8","8","1","2","3","4","5","6","7","8","9","0","1","2","3","4","5">>

PhonePrefixes == {<<>>, <<"+","2","5","0">>, <<"2","5","0">>, <<"0">>, <<"+">>, <<"x">>, <<" ">>}
PhoneSuffixes == {<<>>, <<"a","b","c">>, <<" ">>, <<" ","0","7","8","8","1","2","3","4","5","6">>}

PhoneStrings ==
    {pre \o SubSeq(DigitStream, 1, n) \o suf :
        pre \in PhonePrefixes, n \in 0..MaxPhoneDigits, suf \in PhoneSuffixes}
    \cup {<<"u","n","k","n","o","w","n">>, <<"U","N","K","N","O","W","N">>, <<" ","U","n","k","n","o","w","n"," ">>, <<"1","2","3","4","5">>}

PhoneInputs ==
    {Str(s) : s \in PhoneStrings} \cup {None, PyInt(788123456), PyInt(0)}

InitPhone ==
    /\ phIn \in PhoneInputs
    /\ phOut = None
    /\ phPc = "start"
    /\ IdleAmount /\ IdleCat /\ IdleClean /\ IdleBatch /\ IdleEtl /\ IdleType /\ IdleParse
    /\ IdleStore /\ IdleRun

CleanPhone ==
    /\ phPc = "start"
    /\ phOut' = _clean_phone_number(phIn)
    /\ phPc' = "done"
    /\ UNCHANGED <<phIn, varsAmount, varsCat, varsClean, varsBatch, varsEtl, varsType, varsParse,
                   varsStore, varsRun>>

NextPhone == CleanPhone

SpecPhone == InitPhone /\ [][NextPhone]_vars

-----------------------------------------------------------------------------
(* Operations on dictionaries and strings.                                 *)

\* d.get(key, default)
Get(x, key, default) == IF key \in DOMAIN x.d THEN x.d[key] ELSE default

\* d[key] = value
Put(x, key, value) == Dict((key :> value) @@ x.d)

\* pattern in s (re.search of a literal, str.__contains__)
Contains(s, p) ==
    \E i \in 1..(Len(s) - Len(p) + 1) : \A j \in 1..Len(p) : s[i + j - 1] = p[j]

-----------------------------------------------------------------------------
(* TransactionCategorizer: the tables of __init__.  Every pattern is a      *)
(* literal text (the escaped stars of the 182 short code stand for stars), *)
(* matched with re.IGNORECASE.                                             *)

categories ==
    << [name |-> <<"A","i","r","t","i","m","e"," ","P","u","r","c","h","a","s","e">>,
        patterns |-> << <<"a","i","r","t","i","m","e">>, <<"t","o","k","e","n">>, <<"*","1","8","2","*">>, <<"i","n","t","e","r","n","e","t">>,
                        <<"d","a","t","a"," ","b","u","n","d","l","e">>, <<"m","o","b","i","l","e"," ","d","a","t","a">>, <<"d","a","t","a"," ","p","a","c","k","a","g","e">>,
                        <<"b","u","n","d","l","e">>, <<"u","n","i","t","s">> >>,
        keywords |-> << <<"a","i","r","t","i","m","e">>, <<"t","o","k","e","n">>, <<"i","n","t","e","r","n","e","t">>, <<"d","a","t","a">>,
                        <<"b","u","n","d","l","e">>, <<"u","n","i","t","s">> >>],
       [name |-> <<"B","i","l","l"," ","P","a","y","m","e","n","t">>,
        patterns |-> << <<"b","i","l","l"," ","p","a","y","m","e","n","t">>, <<"u","t","i","l","i","t","y">>, <<"e","l","e","c","t","r","i","c","i","t","y">>,
                        <<"w","a","t","e","r">>, <<"r","e","n","t">>, <<"i","n","s","u","r","a","n","c","e">>, <<"t","a","x">>,
                        <<"g","o","v","e","r","n","m","e","n","t">>, <<"c","o","u","n","c","i","l">> >>,
        keywords |-> << <<"b","i","l","l">>, <<"u","t","i","l","i","t","y">>, <<"e","l","e","c","t","r","i","c","i","t","y">>, <<"w","a","t","e","r">>,
                        <<"r","e","n","t">>, <<"i","n","s","u","r","a","n","c","e">> >>],
       [name |-> <<"M","o","n","e","y"," ","T","r","a","n","s","f","e","r">>,
        patterns |-> << <<"t","r","a","n","s","f","e","r","r","e","d">>, <<"s","e","n","t">>, <<"r","e","c","e","i","v","e","d">>,
                        <<"m","o","b","i","l","e"," ","m","o","n","e","y">>, <<"m","o","m","o">>, <<"t","r","a","n","s","f","e","r">>,
                        <<"s","e","n","d"," ","m","o","n","e","y">>, <<"r","e","c","e","i","v","e"," ","m","o","n","e","y">>, <<"p","a","y","m","e","n","t"," ","t","o">> >>,
        keywords |-> << <<"t","r","a","n","s","f","e","r">>, <<"s","e","n","d">>, <<"r","e","c","e","i","v","e">>, <<"m","o","n","e","y">>,
                        <<"p","a","y","m","e","n","t">> >>],
       [name |-> <<"S","c","h","o","o","l"," ","F","e","e","s">>,
        patterns |-> << <<"s","c","h","o","o","l"," ","f","e","e","s">>, <<"t","u","i","t","i","o","n">>, <<"e","d","u","c","a","t","i","o","n">>,
                        <<"s","t","u","d","e","n","t">>, <<"u","n","i","v","e","r","s","i","t","y">>, <<"c","o","l","l","e","g","e">>,
                        <<"a","c","a","d","e","m","i","c">>, <<"l","e","a","r","n","i","n","g">>, <<"s","c","h","o","o","l">> >>,
        keywords |-> << <<"s","c","h","o","o","l">>, <<"t","u","i","t","i","o","n">>, <<"e","d","u","c","a","t","i","o","n">>,
                        <<"s","t","u","d","e","n","t">>, <<"u","n","i","v","e","r","s","i","t","y">> >>],
       [name |-> <<"S","h","o","p","p","i","n","g">>,
        patterns |-> << <<"p","a","y","m","e","n","t">>, <<"p","u","r","c","h","a","s","e">>, <<"m","e","r","c","h","a","n","t">>, <<"s","h","o","p">>,
                        <<"b","u","y">>, <<"s","t","o","r","e">>, <<"r","e","t","a","i","l">>, <<"g","o","o","d","s">>,
                        <<"s","e","r","v","i","c","e","s">>, <<"p","o","s">> >>,
        keywords |-> << <<"p","a","y","m","e","n","t">>, <<"p","u","r","c","h","a","s","e">>, <<"m","e","r","c","h","a","n","t">>, <<"s","h","o","p">>,
                        <<"b","u","y">> >>] >>

\* Confidences and scores are held in units of 1/ScoreScale: every score of
\* the code is a multiple of 1/18 or 1/20, every bonus of 1/10.
ScoreScale == 18 * 10
Conf(n) == [t |-> "conf", s |-> <<>>, n |-> n, e |-> ""]

transaction_types ==
    << [name |-> <<"D","E","P","O","S","I","T">>,
        patterns |-> << <<"b","a","n","k"," ","d","e","p","o","s","i","t">>, <<"c","a","s","h"," ","d","e","p","o","s","i","t">>, <<"d","e","p","o","s","i","t","e","d">>,
                        <<"a","d","d","e","d"," ","t","o"," ","y","o","u","r"," ","a","c","c","o","u","n","t">> >>,
        category_id |-> 3, confidence |-> (9 * ScoreScale) \div 10],
       [name |-> <<"W","I","T","H","D","R","A","W","A","L">>,
        patterns |-> << <<"w","i","t","h","d","r","a","w","a","l">>, <<"c","a","s","h"," ","o","u","t">>, <<"w","i","t","h","d","r","a","w","n">>,
                        <<"c","a","s","h"," ","w","i","t","h","d","r","a","w","a","l">> >>,
        category_id |-> 3, confidence |-> (9 * ScoreScale) \div 10],
       [name |-> <<"A","I","R","T","I","M","E">>,
        patterns |-> << <<"a","i","r","t","i","m","e">>, <<"t","o","k","e","n">>, <<"*","1","8","2","*">>, <<"i","n","t","e","r","n","e","t">> >>,
        category_id |-> 1, confidence |-> (95 * ScoreScale) \div 100],
       [name |-> <<"B","I","L","L","_","P","A","Y","M","E","N","T">>,
        patterns |-> << <<"b","i","l","l"," ","p","a","y","m","e","n","t">>, <<"u","t","i","l","i","t","y">>, <<"e","l","e","c","t","r","i","c","i","t","y">>,
                        <<"w","a","t","e","r">> >>,
        category_id |-> 2, confidence |-> (9 * ScoreScale) \div 10] >>

\* str.upper()
UpperChar(c) ==
    IF \E u \in DOMAIN UpperToLower : UpperToLower[u] = c
    THEN CHOOSE u \in DOMAIN UpperToLower : UpperToLower[u] = c
    ELSE c
Upper(s) == [i \in 1..Len(s) |-> UpperChar(s[i])]

\* An amount as a number of hundredths, for the comparisons of the code; NaN
\* compares False with everything.
IsNumber(v) == v.t \in {"int", "float", "nan", "inf", "ninf"}
Hundredths(v) == IF v.t = "int" THEN 100 * v.n ELSE v.n
NumLE(v, k) ==
    \/ v.t = "ninf"
    \/ v.t \in {"int", "float"} /\ Hundredths(v) <= 100 * k
NumGE(v, k) ==
    \/ v.t = "inf"
    \/ v.t \in {"int", "float"} /\ Hundredths(v) >= 100 * k

NoCategory == 0

\* TransactionCategorizer._categorize_by_amount: the category the amount
\* nudges toward, or NoCategory (None)
_categorize_by_amount(amount) ==
    IF NumLE(amount, 0) THEN NoCategory
    ELSE IF NumLE(amount, 5000) THEN 1
    ELSE IF NumGE(amount, 50000) THEN 4
    ELSE NoCategory

\* TransactionCategorizer._categorize_by_transaction_type
_categorize_by_transaction_type(transaction_type) ==
    LET u == Upper(transaction_type)
    IN  IF transaction_type = <<>> THEN NoCategory
        ELSE IF u \in {<<"R","E","C","E","I","V","E">>, <<"S","E","N","D">>, <<"D","E","P","O","S","I","T">>, <<"W","I","T","H","D","R","A","W","A","L">>} THEN 3
        ELSE IF u = <<"P","A","Y","M","E","N","T">> THEN 2
        ELSE IF u = <<"P","U","R","C","H","A","S","E">> THEN 5
        ELSE NoCategory

\* Method 1: the first transaction type, in table order, one of whose patterns
\* is found in the body; 0 when none is
FirstTypeSignature(body) ==
    LET hit == {k \in 1..Len(transaction_types) :
                   \E j \in 1..Len(transaction_types[k].patterns) :
                       Contains(Lower(body), transaction_types[k].patterns[j])}
    IN  IF hit = {} THEN 0 ELSE CHOOSE k \in hit : \A j \in hit : k <= j

\* PatternScore with a keyword counted as much as a pattern
PatternScoreKeywordsWhole(cid, body) ==
    LET info == categories[cid]
        p == Cardinality({j \in 1..Len(info.patterns) :
                             Contains(Lower(body), info.patterns[j])})
        k == Cardinality({j \in 1..Len(info.keywords) :
                             Contains(Lower(body), Lower(info.keywords[j]))})
    IN  IF p + k > 0
        THEN ((2 * p + 2 * k) * ScoreScale) \div (2 * Len(info.patterns))
        ELSE -1

\* Method 2: the score of one category, or -1 when nothing of it matched
PatternScore(cid, body) ==
    LET info == categories[cid]
        p == Cardinality({j \in 1..Len(info.patterns) :
                             Contains(Lower(body), info.patterns[j])})
        k == Cardinality({j \in 1..Len(info.keywords) :
                             Contains(Lower(body), Lower(info.keywords[j]))})
    IN  IF p + k > 0
        THEN ((2 * p + k) * ScoreScale) \div (2 * Len(info.patterns))
        ELSE -1

\* category_scores after Method 2: the pairs <<category_id, score>> in the
\* order the dict received its keys
RECURSIVE PatternScores(_, _)
PatternScores(cid, body) ==
    IF cid > Len(categories) THEN <<>>
    ELSE (IF PatternScore(cid, body) >= 0
          THEN << <<cid, PatternScore(cid, body)>> >> ELSE <<>>)
         \o PatternScores(cid + 1, body)

\* if category_id in category_scores: += bonus  else: = bonus
AddBonus(scores, cid, bonus) ==
    IF cid = NoCategory THEN scores
    ELSE IF \E i \in 1..Len(scores) : scores[i][1] = cid
    THEN [i \in 1..Len(scores) |->
             IF scores[i][1] = cid THEN <<cid, scores[i][2] + bonus>> ELSE scores[i]]
    ELSE Append(scores, <<cid, bonus>>)

\* BestCategory with the later of two equal scores winning (max over the
\* reversed items, or a comparison with >= in a hand-written loop)
BestCategoryLastWins(scores) ==
    LET i == CHOOSE a \in 1..Len(scores) :
                 /\ \A b \in 1..Len(scores) : scores[a][2] >= scores[b][2]
                 /\ \A b \in (a + 1)..Len(scores) : scores[b][2] < scores[a][2]
    IN  scores[i]

\* max(category_scores.items(), key=lambda x: x[1]): the first item, in the
\* dict's order, that holds the greatest score
BestCategory(scores) ==
    LET i == CHOOSE a \in 1..Len(scores) :
                 /\ \A b \in 1..Len(scores) : scores[a][2] >= scores[b][2]
                 /\ \A b \in 1..(a - 1) : scores[b][2] < scores[a][2]
    IN  scores[i]

Min(a, b) == IF a <= b THEN a ELSE b

Decision(cid, confidence, method) ==
    [raised |-> FALSE, category_id |-> cid, confidence |-> confidence,
     method |-> method]
DecisionRaised ==
    [raised |-> TRUE, category_id |-> 0, confidence |-> 0, method |-> <<>>]

\* category_scores when the body carries no type signature
CategoryScores(sms_body, transaction_type, amount) ==
    AddBonus(AddBonus(PatternScores(1, sms_body),
                      _categorize_by_amount(amount), (2 * ScoreScale) \div 10),
             _categorize_by_transaction_type(transaction_type), ScoreScale \div 10)

\* _determine_category without the clamp min(confidence, 1.0)
DetermineCategoryUnclamped(sms_body, transaction_type, amount) ==
    IF ~IsStr(sms_body) THEN DecisionRaised
    ELSE IF FirstTypeSignature(sms_body.s) # 0
    THEN LET config == transaction_types[FirstTypeSignature(sms_body.s)]
         IN  Decision(config.category_id, config.confidence,
                      <<"t","r","a","n","s","a","c","t","i","o","n","_","t","y","p","e","_">> \o config.name)
    ELSE IF ~IsNumber(amount) THEN DecisionRaised
    ELSE LET scores == CategoryScores(sms_body.s, transaction_type, amount)
         IN  IF scores # <<>>
             THEN Decision(BestCategory(scores)[1], BestCategory(scores)[2],
                           <<"p","a","t","t","e","r","n","_","m","a","t","c","h","i","n","g">>)
             ELSE Decision(3, ScoreScale \div 10, <<"d","e","f","a","u","l","t","_","f","a","l","l","b","a","c","k">>)

\* _determine_category with the scoring stages tried before the type
\* signatures (the precedence of Method 1 lost)
DetermineCategoryScoresFirst(sms_body, transaction_type, amount) ==
    IF ~IsStr(sms_body) \/ ~IsNumber(amount) THEN DecisionRaised
    ELSE LET scores == CategoryScores(sms_body.s, transaction_type, amount)
         IN  IF scores # <<>>
             THEN Decision(BestCategory(scores)[1],
                           Min(BestCategory(scores)[2], ScoreScale),
                           <<"p","a","t","t","e","r","n","_","m","a","t","c","h","i","n","g">>)
             ELSE IF FirstTypeSignature(sms_body.s) # 0
             THEN LET config == transaction_types[FirstTypeSignature(sms_body.s)]
                  IN  Decision(config.category_id, config.confidence,
                               <<"t","r","a","n","s","a","c","t","i","o","n","_","t","y","p","e","_">> \o config.name)
             ELSE Decision(3, ScoreScale \div 10, <<"d","e","f","a","u","l","t","_","f","a","l","l","b","a","c","k">>)

\* TransactionCategorizer._determine_category.  re.search raises TypeError on
\* a body that is no string; `amount <= 0` raises TypeError on an amount that
\* is no number.
_determine_category(sms_body, transaction_type, amount) ==
    IF ~IsStr(sms_body) THEN DecisionRaised
    ELSE IF FirstTypeSignature(sms_body.s) # 0
    THEN LET config == transaction_types[FirstTypeSignature(sms_body.s)]
         IN  Decision(config.category_id, config.confidence,
                      <<"t","r","a","n","s","a","c","t","i","o","n","_","t","y","p","e","_">> \o config.name)
    ELSE IF ~IsNumber(amount) THEN DecisionRaised
    ELSE LET scores == CategoryScores(sms_body.s, transaction_type, amount)
         IN  IF scores # <<>>
             THEN Decision(BestCategory(scores)[1],
                           Min(BestCategory(scores)[2], ScoreScale),
                           <<"p","a","t","t","e","r","n","_","m","a","t","c","h","i","n","g">>)
             ELSE Decision(3, ScoreScale \div 10, <<"d","e","f","a","u","l","t","_","f","a","l","l","b","a","c","k">>)

\* The four keys categorize_transaction sets
WithCategory(x, cid, name, confidence, method) ==
    Put(Put(Put(Put(x, "category_id", PyInt(cid)),
                "category_name", Str(name)),
            "categorization_confidence", Conf(confidence)),
        "categorization_method", Str(method))

\* The fallback of the no-match path written by the except branch
ErrorFallbackAsDefault(x) ==
    WithCategory(x, 3, <<"M","o","n","e","y"," ","T","r","a","n","s","f","e","r">>, ScoreScale \div 10, <<"d","e","f","a","u","l","t","_","f","a","l","l","b","a","c","k">>)

\* The except branch of categorize_transaction and of categorize_batch
ErrorFallback(x) ==
    WithCategory(x, 3, <<"M","o","n","e","y"," ","T","r","a","n","s","f","e","r">>, 0, <<"e","r","r","o","r","_","f","a","l","l","b","a","c","k">>)

\* What a call did: whether it raised, the value it returned, the caller's
\* argument as the call left it (the error paths write into it), and whether
\* the value returned is the argument object itself and not a copy.
Returned(result, arg, same) ==
    [raised |-> FALSE, result |-> result, arg |-> arg, same |-> same]
Propagated(arg) ==
    [raised |-> TRUE, result |-> NotADict, arg |-> arg, same |-> FALSE]

\* TransactionCategorizer.categorize_transaction.  _extract_additional_info
\* adds at most the optional keys merchant_name, reference_number and
\* location, which the model does not carry; it cannot raise on a string.
categorize_transaction(transaction) ==
    IF ~IsDict(transaction)
        THEN Propagated(transaction)    \* .copy() raises, then the handler's
                                        \* transaction["category_id"] = 3 raises
    ELSE LET transaction_type == Get(transaction, "transaction_type", Str(<<>>))
             decision ==
                 IF ~IsStr(transaction_type) THEN DecisionRaised   \* .upper()
                 ELSE _determine_category(Get(transaction, "body", Str(<<>>)),
                                          Upper(transaction_type.s),
                                          Get(transaction, "amount", PyInt(0)))
         IN  IF decision.raised
             THEN Returned(ErrorFallback(transaction), ErrorFallback(transaction), TRUE)
             ELSE Returned(WithCategory(transaction, decision.category_id,
                                        categories[decision.category_id].name,
                                        decision.confidence, decision.method),
                           transaction, FALSE)

-----------------------------------------------------------------------------
(* Inputs of the categorizer checks.                                       *)

\* A dict of the keys whose value is not Absent
MkDict(f) == Dict([k \in {x \in DOMAIN f : f[x] # Absent} |-> f[k]])

CatWords ==
    {<<"a","i","r","t","i","m","e">>, <<"d","e","p","o","s","i","t","e","d">>, <<"s","t","o","r","e">>, <<"g","o","o","d","s">>, <<"r","e","t","a","i","l">>,
     <<"r","e","n","t">>, <<"s","c","h","o","o","l">>}

\* The bodies of n phrases joined by single spaces
RECURSIVE Phrases(_)
Phrases(n) ==
    IF n = 0 THEN {<<>>}
    ELSE {IF s = <<>> THEN w ELSE s \o <<" ">> \o w :
             s \in Phrases(n - 1) \ (IF n = 1 THEN {} ELSE {<<>>}), w \in CatWords}

CatBodies ==
    {Str(s) : s \in UNION {Phrases(n) : n \in 0..MaxBodyWords}}
    \cup {Str(<<"Y","o","u"," ","b","o","u","g","h","t"," ","A","i","r","T","i","m","e"," ","u","n","i","t","s">>),
          Str(<<"t","r","a","n","s","f","e","r","r","e","d"," ","s","e","n","t"," ","r","e","c","e","i","v","e","d"," ","m","o","b","i","l","e"," ","m","o","n","e","y"," ","m","o","m","o"," ","s","e","n","d"," ","m","o","n","e","y"," ","r","e","c","e","i","v","e"," ","m","o","n","e","y"," ","p","a","y","m","e","n","t"," ","t","o">>),
          None, Absent}

CatTypes == {Str(<<"U","N","K","N","O","W","N">>), Str(<<"S","E","N","D">>), Str(<<"p","u","r","c","h","a","s","e">>), None, Absent}

CatAmounts ==
    {Float(0), Float(100000), Float(2500000), Float(6000000), Str(<<"1",",","5","0","0"," ","R","W","F">>)}

CatInputs ==
    {MkDict([body |-> b, transaction_type |-> ty, amount |-> a]) :
        b \in CatBodies, ty \in CatTypes, a \in CatAmounts}
    \cup {NotADict}

InitCat ==
    /\ catIn \in CatInputs
    /\ catOut = NotADict
    /\ catArg = catIn
    /\ catPc = "start"
    /\ IdleAmount /\ IdlePhone /\ IdleClean /\ IdleBatch /\ IdleEtl /\ IdleType /\ IdleParse
    /\ IdleStore /\ IdleRun

CategorizeTransaction ==
    /\ catPc = "start"
    /\ LET call == categorize_transaction(catIn)
       IN  /\ catOut' = call.result
           /\ catArg' = call.arg
           /\ catPc' = IF call.raised THEN "raised" ELSE "returned"
    /\ UNCHANGED <<catIn, varsAmount, varsPhone, varsClean, varsBatch, varsEtl, varsType, varsParse,
                   varsStore, varsRun>>

NextCat == CategorizeTransaction

SpecCat == InitCat /\ [][NextCat]_vars

-----------------------------------------------------------------------------
(* Properties of categorize_transaction, checked under SpecCat.            *)

catBody == Get(catIn, "body", Str(<<>>))
catType == Get(catIn, "transaction_type", Str(<<>>))
catAmount == Get(catIn, "amount", PyInt(0))
catCalled == catPc \in {"returned", "raised"}

\* C1: every record categorize_transaction returns, on the normal path and on
\* the error path, has category_id in {1,2,3,4,5} and a confidence in [0,1].
C1_CategoryAndConfidenceInRange ==
    catPc = "returned" =>
        /\ catOut.d["category_id"] \in {PyInt(c) : c \in {1, 2, 3, 4, 5}}
        /\ catOut.d["categorization_confidence"] \in {Conf(n) : n \in 0..ScoreScale}

\* A returned record whose raw score exceeded 1.0 and was clamped.
C1_Witness ==
    /\ catPc = "returned"
    /\ catOut.d["categorization_method"] = Str(<<"p","a","t","t","e","r","n","_","m","a","t","c","h","i","n","g">>)
    /\ catOut.d["categorization_confidence"] = Conf(ScoreScale)
    /\ BestCategory(CategoryScores(catBody.s, Upper(catType.s), catAmount))[2] > ScoreScale

HasAirtime == IsStr(catBody) /\ Contains(Lower(catBody.s), <<"a","i","r","t","i","m","e">>)

\* A signature of a type listed before AIRTIME is found in the body.
EarlierSignature ==
    \E k \in 1..Len(transaction_types) :
        /\ \A j \in 1..k : transaction_types[j].name # <<"A","I","R","T","I","M","E">>
        /\ \E j \in 1..Len(transaction_types[k].patterns) :
               Contains(Lower(catBody.s), transaction_types[k].patterns[j])

IsAirtimeDecision ==
    /\ catPc = "returned"
    /\ catOut.d["category_id"] = PyInt(1)
    /\ catOut.d["categorization_method"] = Str(<<"t","r","a","n","s","a","c","t","i","o","n","_","t","y","p","e","_","A","I","R","T","I","M","E">>)

C5_EmptyBodyDefaultFallback ==
    /\ catCalled /\ IsDict(catIn)
    /\ catBody \in {Str(<<>>), None}
    /\ catType = Str(<<"U","N","K","N","O","W","N">>)
    /\ catAmount.t = "float" /\ catAmount.n > 500000 /\ catAmount.n < 5000000
    => /\ catPc = "returned"
       /\ catOut.d["category_id"] = PyInt(3)
       /\ catOut.d["categorization_confidence"] = Conf(ScoreScale \div 10)
       /\ catOut.d["categorization_method"] = Str(<<"d","e","f","a","u","l","t","_","f","a","l","l","b","a","c","k">>)

\* The scoring stages decide: no type signature in the body, and the call
\* reached the resolution with at least one scored category.
AmountCategory == _categorize_by_amount(catAmount)
TypeCategory == _categorize_by_transaction_type(Upper(catType.s))
Scored(c) ==
    PatternScore(c, catBody.s) >= 0 \/ c = AmountCategory \/ c = TypeCategory
TotalScore(c) ==
    (IF PatternScore(c, catBody.s) >= 0 THEN PatternScore(c, catBody.s) ELSE 0)
    + (IF c = AmountCategory THEN (2 * ScoreScale) \div 10 ELSE 0)
    + (IF c = TypeCategory THEN ScoreScale \div 10 ELSE 0)
TopCategories ==
    {c \in 1..Len(categories) :
        Scored(c) /\ \A o \in 1..Len(categories) : Scored(o) => TotalScore(c) >= TotalScore(o)}
\* The place of a category in the score table: the pattern-scored categories
\* in id order, then the one the amount seeded, then the one the type seeded.
EntryRank(c) ==
    IF PatternScore(c, catBody.s) >= 0 THEN c
    ELSE IF c = AmountCategory THEN Len(categories) + 1
    ELSE Len(categories) + 2
ScoringDecides ==
    /\ catPc = "returned" /\ IsDict(catIn)
    /\ IsStr(catBody) /\ IsStr(catType) /\ IsNumber(catAmount)
    /\ FirstTypeSignature(catBody.s) = 0
    /\ \E c \in 1..Len(categories) : Scored(c)
catChosen == catOut.d["category_id"].n

\* C6 as stated: the category with the greatest score is returned, and among
\* several with that score the one with the smallest id, whichever stage gave
\* each its score; the method is pattern_matching.
C6_TieToSmallestId ==
    ScoringDecides =>
        /\ catChosen \in TopCategories
        /\ \A o \in TopCategories : catChosen <= o
        /\ catOut.d["categorization_method"] = Str(<<"p","a","t","t","e","r","n","_","m","a","t","c","h","i","n","g">>)

\* C6 amended: among several categories with the greatest score the one that
\* entered the score table first is returned: a pattern-scored category
\* before one that only the amount heuristic seeded, and that before one that
\* only the type heuristic seeded; pattern-scored categories by ascending id.
C6_TieToFirstEntered ==
    ScoringDecides =>
        /\ catChosen \in TopCategories
        /\ \A o \in TopCategories : EntryRank(catChosen) <= EntryRank(o)
        /\ catOut.d["categorization_method"] = Str(<<"p","a","t","t","e","r","n","_","m","a","t","c","h","i","n","g">>)

\* A tie between two categories.
C6_Witness ==
    /\ ScoringDecides
    /\ Cardinality(TopCategories) >= 2
    /\ \A o \in TopCategories : EntryRank(catChosen) <= EntryRank(o)

-----------------------------------------------------------------------------
(* Properties of _clean_amount, checked under SpecAmount.                  *)

\* C7: an amount string that is a non-negative integer numeral of any length,
\* with or without comma separators and with an optional RWF suffix or
\* prefix, is cleaned to the numeral's value; a string without a numeral
\* ("abc") to 0.0.
C7_NumeralValue ==
    amtPc = "once" /\ IsStr(amtIn) =>
        /\ \A s \in Numerals :
               amtIn.s \in NumeralForms(s) => amtOut = Float(100 * StrToNat(s))
        /\ amtIn.s = <<"a","b","c">> => amtOut = Float(0)

\* C9: _clean_amount(_clean_amount(x)) = _clean_amount(x) for every x.
C9_AmountIdempotent == amtPc = "twice" => amtOut2 = amtOut

-----------------------------------------------------------------------------
(* Properties of _clean_phone_number, checked under SpecPhone.             *)

\* "+250" and nine digits, nothing before or after
Canonical(v) == IsStr(v) /\ Len(v.s) = 4 + SubscriberDigits /\ PhoneMatchAt(1, v.s, 1)

\* C10: _clean_phone_number returns "Unknown" or exactly "+250" followed by
\* exactly nine digits, never a partially normalized value.
C10_CanonicalOrUnknown ==
    phPc = "done" /\ phOut.t # "raise" => phOut = Unknown \/ Canonical(phOut)

\* The number of digits in s
DigitCount(s) == Cardinality({i \in 1..Len(s) : s[i] \in Digit})

\* s is the given prefix followed by exactly nine digits
PrefixedSubscriber(s, pre) ==
    /\ Len(s) = Len(pre) + SubscriberDigits
    /\ SubSeq(s, 1, Len(pre)) = pre
    /\ \A i \in (Len(pre) + 1)..Len(s) : s[i] \in Digit

\* C11: "0", "250", nothing or "+250" followed by nine digits maps to "+250"
\* followed by those nine digits; an input with fewer than nine digits, an
\* empty input and any casing of "unknown" map to "Unknown".
C11_RewriteRules ==
    phPc = "done" /\ (IsStr(phIn) \/ phIn = None) =>
        /\ \A pre \in {<<"0">>, <<"2","5","0">>, <<>>, <<"+","2","5","0">>} :
               IsStr(phIn) /\ PrefixedSubscriber(phIn.s, pre) =>
                   phOut = Str(<<"+","2","5","0">> \o SubSeq(phIn.s, Len(pre) + 1, Len(phIn.s)))
        /\ (\/ phIn = None
            \/ phIn.s = <<>>
            \/ DigitCount(phIn.s) < SubscriberDigits
            \/ Lower(phIn.s) = <<"u","n","k","n","o","w","n">>) => phOut = Unknown

\* "250" and nine digits, rewritten by the second rule though the fourth
\* matches it too.
C11_Witness ==
    /\ phPc = "done"
    /\ phIn = Str(<<"2","5","0","7","8","8","1","2","3","4","5","6">>)
    /\ phOut = Str(<<"+","2","5","0","7","8","8","1","2","3","4","5","6">>)

-----------------------------------------------------------------------------
(* DataCleaner: the other field rules and clean_transaction.               *)

\* datetime.now().isoformat(): the processing time, which the model does not
\* render
NowIso == [t |-> "iso", s |-> <<>>, n |-> 0, e |-> "now"]
\* The ISO-8601 rendering of the instant that the text s denotes under the
\* named rule
Iso(rule, s) == [t |-> "iso", s |-> s, n |-> 0, e |-> rule]

StartsWith(s, p) == Len(s) >= Len(p) /\ SubSeq(s, 1, Len(p)) = p

\* DataCleaner._clean_id; clock is int(datetime.now().timestamp())
_clean_id(transaction_id, clock) ==
    IF Falsy(transaction_id) THEN Str(<<"T","X","N","_">> \o NatToStr(clock))
    ELSE IF ~IsStr(transaction_id) THEN Raised("AttributeError")   \* .strip()
    ELSE IF Strip(transaction_id.s) = <<>> THEN Str(<<"T","X","N","_">> \o NatToStr(clock))
    ELSE IF StartsWith(Strip(transaction_id.s), <<"T","X","N","_">>) THEN Str(Strip(transaction_id.s))
    ELSE Str(<<"T","X","N","_">> \o Strip(transaction_id.s))

IsDigitString(s) == s # <<>> /\ \A i \in 1..Len(s) : s[i] \in Digit

\* Days of month m of year y in the proleptic Gregorian calendar
DaysInMonth(y, m) ==
    IF m = 2 THEN (IF y % 4 = 0 /\ (y % 100 # 0 \/ y % 400 = 0) THEN 29 ELSE 28)
    ELSE IF m \in {4, 6, 9, 11} THEN 30
    ELSE 31

\* The date fields at the given places of s denote a day datetime accepts
ValidDate(s, yp, mp, dp) ==
    /\ DigitsAt(s, yp, 4) /\ StrToNat(SubSeq(s, yp, yp + 3)) >= 1
    /\ DigitsAt(s, mp, 2) /\ StrToNat(SubSeq(s, mp, mp + 1)) \in 1..12
    /\ DigitsAt(s, dp, 2)
    /\ StrToNat(SubSeq(s, dp, dp + 1)) \in
           1..DaysInMonth(StrToNat(SubSeq(s, yp, yp + 3)), StrToNat(SubSeq(s, mp, mp + 1)))

\* A two-digit field of s at p with a value in lo..hi
FieldIn(s, p, lo, hi) ==
    /\ DigitsAt(s, p, 2)
    /\ StrToNat(SubSeq(s, p, p + 1)) \in lo..hi

\* datetime.fromisoformat accepts s: the form YYYY-MM-DDTHH:MM:SS with fields
\* in range (the only ISO form the inputs of the model take)
IsoParses(s) ==
    /\ Len(s) = 19
    /\ s[5] = "-" /\ s[8] = "-" /\ s[11] = "T"
    /\ ValidDate(s, 1, 6, 9)
    /\ FieldIn(s, 12, 0, 23) /\ s[14] = ":" /\ FieldIn(s, 15, 0, 59)
    /\ s[17] = ":" /\ FieldIn(s, 18, 0, 59)

RECURSIVE RemoveChar(_, _)
RemoveChar(s, c) ==
    IF s = <<>> THEN <<>>
    ELSE IF Head(s) = c THEN RemoveChar(Tail(s), c)
    ELSE <<Head(s)>> \o RemoveChar(Tail(s), c)

\* self.date_patterns: the separators of the date part and the place of the
\* four-digit year (1: first, 3: last)
date_patterns ==
    << [sep |-> "-", year |-> 1],    \* r"(\d{4}-\d{2}-\d{2})\s+(\d{2}:\d{2}:\d{2})"
       [sep |-> "/", year |-> 3],    \* r"(\d{2}/\d{2}/\d{4})\s+(\d{2}:\d{2}:\d{2})"
       [sep |-> "-", year |-> 3] >>  \* r"(\d{2}-\d{2}-\d{4})\s+(\d{2}:\d{2}:\d{2})"

\* The date part of pattern k at p, then \s+, then the time part: the end of
\* the date part and the start of the time part
DateAt(k, s, p) ==
    LET a == IF date_patterns[k].year = 1 THEN 4 ELSE 2
        c == IF date_patterns[k].year = 1 THEN 2 ELSE 4
        q == SkipWs(s, p + 10)
    IN  /\ p + 9 <= Len(s) /\ DigitsAt(s, p, a)
        /\ s[p + a] = date_patterns[k].sep
        /\ DigitsAt(s, p + a + 1, 2)
        /\ s[p + a + 3] = date_patterns[k].sep
        /\ DigitsAt(s, p + a + 4, c)
        /\ q > p + 10
        /\ q + 7 <= Len(s) /\ DigitsAt(s, q, 2) /\ s[q + 2] = ":"
        /\ DigitsAt(s, q + 3, 2) /\ s[q + 5] = ":" /\ DigitsAt(s, q + 6, 2)

\* strptime accepts the matched date and time under the format of pattern k
\* (the other two formats cannot parse a text of pattern k's form)
DateParses(k, s, p) ==
    LET q == SkipWs(s, p + 10)
        y == IF date_patterns[k].year = 1 THEN p ELSE p + 6
        m == IF date_patterns[k].year = 1 THEN p + 5 ELSE p + 3
        d == IF date_patterns[k].year = 1 THEN p + 8 ELSE p
    IN  /\ ValidDate(s, y, m, d)
        /\ FieldIn(s, q, 0, 23) /\ FieldIn(s, q + 3, 0, 59) /\ FieldIn(s, q + 6, 0, 59)

\* The first date pattern, in list order, found in s whose leftmost match
\* parses; 0 when none
FirstDatePattern(s) ==
    LET leftmost(k) == CHOOSE p \in 1..Len(s) :
                           DateAt(k, s, p) /\ \A r \in 1..(p - 1) : ~DateAt(k, s, r)
        hit == {k \in 1..Len(date_patterns) :
                   /\ \E p \in 1..Len(s) : DateAt(k, s, p)
                   /\ DateParses(k, s, leftmost(k))}
    IN  IF hit = {} THEN 0 ELSE CHOOSE k \in hit : \A j \in hit : k <= j

\* DataCleaner._clean_timestamp
_clean_timestamp(timestamp) ==
    IF Falsy(timestamp) THEN NowIso
    ELSE LET s == Strip(PyStr(timestamp))
         IN  IF IsDigitString(s) /\ Len(s) = 13 THEN Iso("epoch_ms", s)
             ELSE IF IsDigitString(s) /\ Len(s) = 10 THEN Iso("epoch_s", s)
             ELSE IF \E i \in 1..Len(s) : s[i] = "T"
                 THEN (IF IsoParses(RemoveChar(s, "Z"))
                       THEN Iso("iso", RemoveChar(s, "Z")) ELSE NowIso)
             ELSE IF FirstDatePattern(s) # 0 THEN Iso("date_pattern", s)
             ELSE NowIso

\* DataCleaner._clean_transaction_type
_clean_transaction_type(transaction_type) ==
    IF Falsy(transaction_type) THEN Str(<<"U","N","K","N","O","W","N">>)
    ELSE LET cleaned_type == Upper(Strip(PyStr(transaction_type)))
         IN  IF cleaned_type \in {<<"1">>, <<"R","E","C","E","I","V","E","D">>, <<"D","E","P","O","S","I","T">>} THEN Str(<<"R","E","C","E","I","V","E">>)
             ELSE IF cleaned_type \in {<<"0">>, <<"S","E","N","T">>, <<"T","R","A","N","S","F","E","R">>, <<"P","A","Y","M","E","N","T">>,
                                       <<"W","I","T","H","D","R","A","W","A","L">>} THEN Str(<<"S","E","N","D">>)
             ELSE Str(cleaned_type)

\* [:\s]* from p
SkipColonWs(s, p) ==
    LET stop == {q \in p..(Len(s) + 1) :
                    q = Len(s) + 1 \/ s[q] \notin (Whitespace \cup {":"})}
    IN  CHOOSE q \in stop : \A r \in stop : q <= r

\* re.search(label + r"[:\s]*(\d{1,3}(?:,\d{3})*(?:\.\d{2})?)", s, IGNORECASE)
LabelledNumber(label, s) ==
    LET R == {r \in 1..Len(s) :
                 /\ LitAt(s, r, label)
                 /\ \E c \in NumberMatches(s) : c[1] = SkipColonWs(s, r + Len(label))}
    IN  IF R = {} THEN NoMatch
        ELSE LET r == CHOOSE x \in R : \A y \in R : x <= y
                 c == FirstOf({x \in NumberMatches(s) :
                                  x[1] = SkipColonWs(s, r + Len(label))})
             IN  Group(s, c[1], c[1] + NumLen(c[2], c[3], c[4]) - 1)

\* re.search(r"TxId:\s*(\d+)", s, IGNORECASE)
TxIdMatch(s) ==
    LET R == {r \in 1..Len(s) :
                 /\ LitAt(s, r, <<"t","x","i","d",":">>)
                 /\ SkipWs(s, r + 5) <= Len(s)
                 /\ s[SkipWs(s, r + 5)] \in Digit}
    IN  IF R = {} THEN NoMatch
        ELSE LET r == CHOOSE x \in R : \A y \in R : x <= y
             IN  Group(s, SkipWs(s, r + 5), DigitRunEnd(s, SkipWs(s, r + 5)))

\* if transaction.get("amount", 0) == 0: the first amount pattern found in the
\* body, when there is one, gives the amount
AmountFromBody(transaction, match) ==
    IF /\ Get(transaction, "amount", PyInt(0)).t \in {"int", "float"}
       /\ Get(transaction, "amount", PyInt(0)).n = 0
       /\ match.ok
    THEN Put(transaction, "amount", DecimalToFloat(RemoveCommas(match.g)))
    ELSE transaction

\* if tx_id_match and not transaction.get("Id")
IdFromBody(transaction, tx_id_match) ==
    IF tx_id_match.ok /\ Falsy(Get(transaction, "Id", None))
    THEN Put(transaction, "Id", Str(<<"T","X","N","_">> \o tx_id_match.g))
    ELSE transaction

\* transaction[key] = float(match.group(1).replace(",", "")) on a match
NumberFromBody(transaction, key, match) ==
    IF match.ok
    THEN Put(transaction, key, DecimalToFloat(RemoveCommas(match.g)))
    ELSE transaction

\* DataCleaner._extract_from_body: the record it leaves, or raised (re.search
\* raises TypeError on a body that is no string).  Each search is bound once.
_extract_from_body(transaction, body) ==
    IF Falsy(body) THEN [raised |-> FALSE, record |-> transaction]
    ELSE IF ~IsStr(body) THEN [raised |-> TRUE, record |-> transaction]
    ELSE CHOOSE left \in
             {[raised |-> FALSE,
               record |-> NumberFromBody(
                              NumberFromBody(
                                  IdFromBody(AmountFromBody(given, amount_match),
                                             tx_id_match),
                                  "balance_after", balance_match),
                              "fee", fee_match)] :
                 given \in {transaction},
                 amount_match \in {FirstAmountMatch(body.s)},
                 tx_id_match \in {TxIdMatch(body.s)},
                 balance_match \in {LabelledNumber(<<"b","a","l","a","n","c","e">>, body.s)},
                 fee_match \in {LabelledNumber(<<"f","e","e">>, body.s)}} : TRUE

\* value < 0 and value <= 0 on a cleaned amount
IsNegative(v) == v.t = "ninf" \/ (v.t \in {"int", "float"} /\ v.n < 0)

required_fields == <<"Id", "amount", "sender", "receiver", "timestamp">>

\* DataCleaner._validate_transaction
_validate_transaction(transaction) ==
    /\ \A i \in 1..Len(required_fields) :
           /\ required_fields[i] \in DOMAIN transaction.d
           /\ ~Falsy(transaction.d[required_fields[i]])
    /\ ~IsNegative(transaction.d["amount"])
    /\ ~(transaction.d["sender"] = Unknown /\ transaction.d["receiver"] = Unknown)

\* DataCleaner._get_validation_issues
_get_validation_issues(transaction) ==
    (IF LET a == Get(transaction, "amount", PyInt(0))
        IN  IsNegative(a) \/ (a.t \in {"int", "float"} /\ a.n = 0)
     THEN <<"Invalid or zero amount">> ELSE <<>>)
    \o (IF Get(transaction, "sender", None) = Unknown
        THEN <<"Unknown sender">> ELSE <<>>)
    \o (IF Get(transaction, "receiver", None) = Unknown
        THEN <<"Unknown receiver">> ELSE <<>>)
    \o (IF Get(transaction, "transaction_type", None) = Str(<<"U","N","K","N","O","W","N">>)
        THEN <<"Unknown transaction type">> ELSE <<>>)

\* The "_validation" entry (cleaned_at, a time stamp, is left out)
Validation(is_valid, issues) ==
    [t |-> "validation", s |-> issues, n |-> IF is_valid THEN 1 ELSE 0, e |-> ""]

\* The except branch of clean_transaction: the caller's record, flagged
CleaningError(transaction) ==
    Put(transaction, "_validation", Validation(FALSE, <<"Cleaning error">>))

\* The field rules of clean_transaction, in the order of the code: the record
\* they leave, or raised when one of them raises
CleanFields(transaction, clock) ==
    LET id == _clean_id(Get(transaction, "Id", Str(<<>>)), clock)
        sender == _clean_phone_number(Get(transaction, "sender", Unknown))
        receiver == _clean_phone_number(Get(transaction, "receiver", Unknown))
    IN  IF id.t = "raise" \/ sender.t = "raise" \/ receiver.t = "raise"
        THEN [raised |-> TRUE, record |-> transaction]
        ELSE [raised |-> FALSE,
              record |->
                 Put(Put(Put(Put(Put(Put(transaction,
                     "Id", id),
                     "amount", _clean_amount(Get(transaction, "amount", Str(<<"0">>)))),
                     "sender", sender),
                     "receiver", receiver),
                     "timestamp", _clean_timestamp(Get(transaction, "timestamp", Str(<<>>)))),
                     "transaction_type",
                         _clean_transaction_type(Get(transaction, "transaction_type",
                                                     Str(<<"U","N","K","N","O","W","N">>))))]

\* if "body" in transaction: self._extract_from_body(cleaned, transaction["body"])
ExtractBody(transaction, fields) ==
    IF fields.raised \/ "body" \notin DOMAIN transaction.d THEN fields
    ELSE _extract_from_body(fields.record, transaction.d["body"])

\* The end of clean_transaction: the validation entry, or the except branch
Validated(transaction, extracted) ==
    IF extracted.raised
    THEN Returned(CleaningError(transaction), CleaningError(transaction), TRUE)
    ELSE Returned(Put(extracted.record, "_validation",
                      Validation(_validate_transaction(extracted.record),
                                 _get_validation_issues(extracted.record))),
                  transaction, FALSE)

\* DataCleaner.clean_transaction; clock is the processing time in seconds.
\* Each stage is bound once.
clean_transaction(transaction, clock) ==
    IF ~IsDict(transaction)
        THEN Propagated(transaction)    \* .copy() raises, then the handler's
                                        \* transaction["_validation"] = ... raises
    ELSE CHOOSE call \in
             {Validated(transaction, extracted) :
                 extracted \in {ExtractBody(transaction, fields) :
                                   fields \in {CleanFields(transaction, clock)}}} : TRUE

-----------------------------------------------------------------------------
(* clean_transaction on one record.                                        *)

\* int(datetime.now().timestamp()) at the call
Clocks == {1715351458, 1715351459}

CleanAmounts ==
    {Str(<<"1",",","5","0","0"," ","R","W","F">>), Str(<<"1","5","0","0">>), Str(<<"R","W","F"," ","2","5",",","0","0","0",".","5","0">>), Str(<<"0">>),
     Str(<<"-","I","n","f","i","n","i","t","y">>), Str(<<"N","a","N">>), Str(<<"f","r","e","e">>), PyInt(1500), None, Absent}

CleanSenders == {Str(<<"0","7","8","8","1","2","3","4","5","6">>), PyInt(788123456), Absent}

CleanBodies ==
    {Str(<<"T","x","I","d",":"," ","1","2","3","4","5","."," ","Y","o","u"," ","p","a","i","d"," ","2",",","0","0","0"," ","R","W","F",","," ","f","e","e"," ","2","0","."," ","N","e","w"," ","b","a","l","a","n","c","e",":"," ","5",",","0","0","0"," ","R","W","F">>),
     Str(<<>>), PyInt(5), None, Absent}

CleanIds == {Str(<<"7","6","6","6","2","0","2","1","7","0","0">>), Str(<<" ">>), PyInt(7)}

CleanTimestamps ==
    {Str(<<"1","7","1","5","3","5","1","4","5","8","7","2","4">>), Str(<<"2","0","2","4","-","0","2","-","2","9","T","1","6",":","3","0",":","5","8","Z">>),
     Str(<<"1","0","/","0","5","/","2","0","2","4"," ","1","6",":","3","0",":","5","8">>), Str(<<"y","e","s","t","e","r","d","a","y">>),
     Str(<<"1","7","1","5","3","5","1","4","5","8">>), Str(<<"o","n"," ","1","0","-","0","5","-","2","0","2","4"," ","1","6",":","3","0",":","5","1">>),
     Str(<<"2","0","2","4","-","0","5","-","1","0"," ","1","6",":","3","0",":","5","1"," ","C","A","T">>)}

CleanInputs ==
    {MkDict([Id |-> Str(<<"7","6","6","6","2","0","2","1","7","0","0">>), amount |-> a, sender |-> sd,
             receiver |-> Str(<<"2","5","0","7","8","8","6","5","4","3","2","1">>), timestamp |-> Str(<<"1","7","1","5","3","5","1","4","5","8","7","2","4">>),
             transaction_type |-> Str(<<"1">>), body |-> b]) :
        a \in CleanAmounts, sd \in CleanSenders, b \in CleanBodies}
    \cup {MkDict([Id |-> i, amount |-> Str(<<"1",",","5","0","0"," ","R","W","F">>), sender |-> Str(<<"0","7","8","8","1","2","3","4","5","6">>),
                  receiver |-> Absent, timestamp |-> ts,
                  transaction_type |-> Str(<<"p","a","y","m","e","n","t">>), body |-> Absent]) :
             i \in CleanIds, ts \in CleanTimestamps}
    \cup {NotADict}

InitClean ==
    /\ clIn \in CleanInputs
    /\ clOut = NotADict
    /\ clArg = clIn
    /\ clPc = "start"
    /\ IdleAmount /\ IdlePhone /\ IdleCat /\ IdleBatch /\ IdleEtl /\ IdleType /\ IdleParse
    /\ IdleStore /\ IdleRun

CleanTransaction ==
    /\ clPc = "start"
    /\ \E clock \in Clocks :
           \E call \in {clean_transaction(clIn, clock)} :
               /\ clOut' = call.result
               /\ clArg' = call.arg
               /\ clPc' = IF call.raised THEN "raised" ELSE "returned"
    /\ UNCHANGED <<clIn, varsAmount, varsPhone, varsCat, varsBatch, varsEtl, varsType, varsParse,
                   varsStore, varsRun>>

NextClean == CleanTransaction

SpecClean == InitClean /\ [][NextClean]_vars

-----------------------------------------------------------------------------
(* categorize_batch.                                                       *)

\* Lists of at most n elements of R
RECURSIVE ListsOf(_, _)
ListsOf(R, n) ==
    IF n = 0 THEN {<<>>}
    ELSE ListsOf(R, n - 1)
         \cup {Append(l, r) : l \in {x \in ListsOf(R, n - 1) : Len(x) = n - 1}, r \in R}

BatchRecords ==
    {MkDict([body |-> Str(<<"Y","o","u"," ","b","o","u","g","h","t"," ","a","i","r","t","i","m","e">>), transaction_type |-> Str(<<"S","E","N","D">>),
             amount |-> Float(100000)]),
     MkDict([body |-> None, transaction_type |-> Str(<<"S","E","N","D">>), amount |-> Float(100000)]),
     MkDict([body |-> Str(<<"r","e","n","t">>), transaction_type |-> PyInt(1), amount |-> Float(0)]),
     MkDict([body |-> Str(<<>>), transaction_type |-> Str(<<"U","N","K","N","O","W","N">>),
             amount |-> Str(<<"1",",","5","0","0"," ","R","W","F">>)]),
     NotADict}

InitBatch ==
    /\ cbGiven \in ListsOf(BatchRecords, MaxBatch)
    /\ transactions = cbGiven
    /\ categorized_transactions = <<>>
    /\ cbIdx = 1
    /\ cbPc = "loop"
    /\ IdleAmount /\ IdlePhone /\ IdleCat /\ IdleClean /\ IdleEtl /\ IdleType /\ IdleParse
    /\ IdleStore /\ IdleRun

\* One turn of the loop of categorize_batch
CategorizeBatchStep ==
    /\ cbPc = "loop"
    /\ cbIdx <= Len(transactions)
    /\ \E call \in {categorize_transaction(transactions[cbIdx])} :
           IF ~call.raised
           THEN /\ categorized_transactions' = Append(categorized_transactions, call.result)
                /\ transactions' = [transactions EXCEPT ![cbIdx] = call.arg]
                /\ cbIdx' = cbIdx + 1
                /\ cbPc' = "loop"
           ELSE IF IsDict(call.arg)
           THEN /\ categorized_transactions' =
                       Append(categorized_transactions, ErrorFallback(call.arg))
                /\ transactions' = [transactions EXCEPT ![cbIdx] = ErrorFallback(call.arg)]
                /\ cbIdx' = cbIdx + 1
                /\ cbPc' = "loop"
           ELSE \* the handler's transaction["category_id"] = 3 raises
                /\ cbPc' = "raised"
                /\ UNCHANGED <<transactions, categorized_transactions, cbIdx>>
    /\ UNCHANGED <<cbGiven, varsAmount, varsPhone, varsCat, varsClean, varsEtl, varsType, varsParse,
                   varsStore, varsRun>>

CategorizeBatchReturn ==
    /\ cbPc = "loop"
    /\ cbIdx > Len(transactions)
    /\ cbPc' = "returned"
    /\ UNCHANGED <<cbGiven, transactions, categorized_transactions, cbIdx,
                   varsAmount, varsPhone, varsCat, varsClean, varsEtl, varsType, varsParse,
                   varsStore, varsRun>>

NextBatch == CategorizeBatchStep \/ CategorizeBatchReturn

SpecCatBatch == InitBatch /\ [][NextBatch]_vars

-----------------------------------------------------------------------------
(* ETLPipeline.transform.                                                  *)

WellFormed ==
    MkDict([Id |-> Str(<<"7","6","6","6","2","0","2","1","7","0","0">>), amount |-> Str(<<"1",",","5","0","0"," ","R","W","F">>),
            sender |-> Str(<<"0","7","8","8","1","2","3","4","5","6">>), receiver |-> Str(<<"2","5","0","7","8","8","6","5","4","3","2","1">>),
            timestamp |-> Str(<<"1","7","1","5","3","5","1","4","5","8","7","2","4">>), transaction_type |-> Str(<<"1">>),
            body |-> Str(<<"R","e","c","e","i","v","e","d"," ","1",",","5","0","0"," ","R","W","F","."," ","B","a","l","a","n","c","e",":"," ","5",",","0","0","0"," ","R","W","F">>)])

RawRecords ==
    {WellFormed,
     Put(WellFormed, "sender", PyInt(788123456)),
     Put(WellFormed, "amount", PyInt(1500)),
     Put(Put(WellFormed, "body", None), "amount", Str(<<"-","I","n","f","i","n","i","t","y">>)),
     MkDict([amount |-> Str(<<"f","r","e","e">>)]),
     NotADict}

InitEtl ==
    /\ rawGiven \in ListsOf(RawRecords, MaxBatch)
    /\ raw_transactions = rawGiven
    /\ processed_transactions = <<>>
    /\ stats = [failed |-> 0, errors |-> <<>>]
    /\ tfIdx = 1
    /\ tfPc = "loop"
    /\ IdleAmount /\ IdlePhone /\ IdleCat /\ IdleClean /\ IdleBatch /\ IdleType /\ IdleParse
    /\ IdleStore /\ IdleRun

\* The processing metadata transform adds to a record
WithMetadata(t) == Put(Put(t, "processed_at", NowIso), "etl_version", Str(<<"1",".","0">>))

\* The turn of the loop with the record put in front of the list, not behind
TransformRecordInFront ==
    /\ tfPc = "loop"
    /\ tfIdx <= Len(raw_transactions)
    /\ \E clock \in Clocks :
       \E cleaned \in {clean_transaction(raw_transactions[tfIdx], clock)} :
       \E categorized \in {categorize_transaction(cleaned.result)} :
               /\ ~cleaned.raised /\ ~categorized.raised
               /\ processed_transactions' =
                      <<WithMetadata(categorized.result)>> \o processed_transactions
               /\ raw_transactions' =
                      [raw_transactions EXCEPT ![tfIdx] =
                          IF cleaned.same /\ categorized.same
                              THEN WithMetadata(categorized.result)
                          ELSE cleaned.arg]
    /\ tfIdx' = tfIdx + 1
    /\ UNCHANGED <<rawGiven, stats, tfPc,
                   varsAmount, varsPhone, varsCat, varsClean, varsBatch, varsType, varsParse,
                   varsStore, varsRun>>

\* One turn of the loop of transform on a record both stages return
TransformRecord ==
    /\ tfPc = "loop"
    /\ tfIdx <= Len(raw_transactions)
    /\ \E clock \in Clocks :
       \E cleaned \in {clean_transaction(raw_transactions[tfIdx], clock)} :
       \E categorized \in {categorize_transaction(cleaned.result)} :
               /\ ~cleaned.raised /\ ~categorized.raised
               /\ processed_transactions' =
                      Append(processed_transactions, WithMetadata(categorized.result))
               /\ raw_transactions' =
                      [raw_transactions EXCEPT ![tfIdx] =
                          IF cleaned.same /\ categorized.same
                              THEN WithMetadata(categorized.result)
                          ELSE cleaned.arg]
    /\ tfIdx' = tfIdx + 1
    /\ UNCHANGED <<rawGiven, stats, tfPc,
                   varsAmount, varsPhone, varsCat, varsClean, varsBatch, varsType, varsParse,
                   varsStore, varsRun>>

\* One turn of the loop of transform on a record a stage raises on
TransformFailure ==
    /\ tfPc = "loop"
    /\ tfIdx <= Len(raw_transactions)
    /\ \E clock \in Clocks :
       \E cleaned \in {clean_transaction(raw_transactions[tfIdx], clock)} :
           IF cleaned.raised THEN TRUE
           ELSE categorize_transaction(cleaned.result).raised
    /\ stats' = [failed |-> stats.failed + 1,
                 errors |-> Append(stats.errors, tfIdx - 1)]
    /\ tfIdx' = tfIdx + 1
    /\ UNCHANGED <<rawGiven, raw_transactions, processed_transactions, tfPc,
                   varsAmount, varsPhone, varsCat, varsClean, varsBatch, varsType, varsParse,
                   varsStore, varsRun>>

TransformReturn ==
    /\ tfPc = "loop"
    /\ tfIdx > Len(raw_transactions)
    /\ tfPc' = "returned"
    /\ UNCHANGED <<rawGiven, raw_transactions, processed_transactions, stats, tfIdx,
                   varsAmount, varsPhone, varsCat, varsClean, varsBatch, varsType, varsParse,
                   varsStore, varsRun>>

Next == TransformRecord \/ TransformFailure \/ TransformReturn

Spec == InitEtl /\ [][Next]_vars

-----------------------------------------------------------------------------
(* Properties of clean_transaction, checked under SpecClean.               *)

clAmount == Get(clOut, "amount", Absent)

\* C8: in every record clean_transaction returns, whatever the raw input,
\* amount is a number greater than or equal to 0: never negative, never a raw
\* value left unparsed.
C8_AmountNonNegativeNumber ==
    clPc = "returned" => clAmount.t \in {"int", "float"} /\ clAmount.n >= 0

-----------------------------------------------------------------------------
(* Properties of categorize_batch, checked under SpecCatBatch.             *)

\* Categorizing the record t raises inside categorize_transaction
RaisesInside(t) ==
    /\ IsDict(t)
    /\ \/ ~IsStr(Get(t, "transaction_type", Str(<<>>)))
       \/ _determine_category(Get(t, "body", Str(<<>>)),
                              Upper(Get(t, "transaction_type", Str(<<>>)).s),
                              Get(t, "amount", PyInt(0))).raised

IsErrorFallback(t) ==
    /\ IsDict(t)
    /\ Get(t, "category_id", Absent) = PyInt(3)
    /\ Get(t, "category_name", Absent) = Str(<<"M","o","n","e","y"," ","T","r","a","n","s","f","e","r">>)
    /\ Get(t, "categorization_confidence", Absent) = Conf(0)
    /\ Get(t, "categorization_method", Absent) = Str(<<"e","r","r","o","r","_","f","a","l","l","b","a","c","k">>)

\* C3: an error raised while categorizing a record (a dict) does not leave
\* categorize_transaction or categorize_batch: the record comes back with
\* category 3, 'Money Transfer', confidence 0.0 and method 'error_fallback',
\* and the records after it are processed, so that a batch of records returns
\* one entry for each.  (A list element that is no dict is the one case in
\* which the batch raises.)
C3_ErrorFallbackAndBatchGoesOn ==
    /\ cbPc = "raised" => ~IsDict(cbGiven[cbIdx])
    /\ \A k \in 1..Len(categorized_transactions) :
           RaisesInside(cbGiven[k]) => IsErrorFallback(categorized_transactions[k])
    /\ cbPc = "returned" => Len(categorized_transactions) = Len(cbGiven)

\* A returned batch in which a record fell back on an error and the record
\* after it was categorized normally.
C3_Witness ==
    /\ cbPc = "returned"
    /\ \E k \in 1..(Len(cbGiven) - 1) :
           /\ RaisesInside(cbGiven[k])
           /\ IsErrorFallback(categorized_transactions[k])
           /\ ~RaisesInside(cbGiven[k + 1])
           /\ ~IsErrorFallback(categorized_transactions[k + 1])

-----------------------------------------------------------------------------
(* Properties of ETLPipeline.transform, checked under Spec.                *)

\* A record with a non-string amount or sender, or that is no dict at all
Malformed(t) ==
    \/ ~IsDict(t)
    \/ \E key \in {"amount", "sender"} : key \in DOMAIN t.d /\ ~IsStr(t.d[key])

\* C2: for a batch of N raw records, transform returns exactly N records and
\* the error list of the pipeline holds exactly one entry for each malformed
\* record (a non-string amount or sender).
C2_AllRecordsKeptOneErrorEach ==
    tfPc = "returned" =>
        /\ Len(processed_transactions) = Len(rawGiven)
        /\ Len(stats.errors) =
               Cardinality({k \in 1..Len(rawGiven) : Malformed(rawGiven[k])})

\* C12: in every record clean_transaction returns, timestamp is an ISO-8601
\* rendering (of the parsed source or of the processing time), never the
\* unparsed source text.
C12_TimestampIsIso ==
    clPc = "returned" => Get(clOut, "timestamp", Absent).t = "iso"

\* ---- _clean_transaction_type alone ----

TypeWords ==
    {<<>>, <<"1">>, <<"0">>, <<"R","E","C","E","I","V","E","D">>, <<"r","e","c","e","i","v","e","d">>, <<"D","e","p","o","s","i","t">>, <<"S","E","N","T">>,
     <<"s","e","n","t">>, <<"t","r","a","n","s","f","e","r">>, <<"P","a","y","m","e","n","t">>, <<"W","I","T","H","D","R","A","W","A","L">>, <<"a","i","r","t","i","m","e">>,
     <<"c","a","s","h"," ","o","u","t">>, <<"U","N","K","N","O","W","N">>}
TypePadding == {<<>>, <<" ">>, <<"\t">>, <<" ","\n">>}

TypeInputs ==
    {Str(pre \o w \o suf) : pre \in TypePadding, w \in TypeWords, suf \in TypePadding}
        \cup {None, PyInt(0), PyInt(1), PyInt(5)}

InitType ==
    /\ ttIn \in TypeInputs
    /\ ttOut = None
    /\ ttPc = "start"
    /\ IdleAmount /\ IdlePhone /\ IdleCat /\ IdleClean /\ IdleBatch /\ IdleEtl /\ IdleParse
    /\ IdleStore /\ IdleRun

CleanTransactionType ==
    /\ ttPc = "start"
    /\ ttOut' = _clean_transaction_type(ttIn)
    /\ ttPc' = "done"
    /\ UNCHANGED <<ttIn, varsAmount, varsPhone, varsCat, varsClean, varsBatch, varsEtl,
                   varsParse,
                   varsStore, varsRun>>

NextType == CleanTransactionType

SpecType == InitType /\ [][NextType]_vars

\* C13: _clean_transaction_type never returns an empty string, and an input
\* that is missing or empty after trimming becomes 'UNKNOWN'.
C13_TypeNeverEmpty ==
    ttPc = "done" =>
        /\ ttOut # Str(<<>>)
        /\ (ttIn = None \/ (IsStr(ttIn) /\ Strip(ttIn.s) = <<>>)) => ttOut = Str(<<"U","N","K","N","O","W","N">>)

\* A field of the returned record that is present and non-empty
PresentNonEmpty(field) ==
    /\ field \in DOMAIN clOut.d
    /\ clOut.d[field] \notin {None, Absent, Str(<<>>)}

\* C14: for a record the field rules went through, _validation.is_valid is
\* true exactly when Id, amount, sender, receiver and timestamp are present
\* and non-empty, the amount is not negative, and sender and receiver are not
\* both 'Unknown'; a zero amount does not by itself make the record invalid.
C14_ValidExactlyWhen ==
    clPc = "returned" /\ clOut # CleaningError(clIn) =>
        (Get(clOut, "_validation", None).n = 1
            <=> /\ \A i \in 1..Len(required_fields) : PresentNonEmpty(required_fields[i])
                /\ ~IsNegative(clOut.d["amount"])
                /\ ~(clOut.d["sender"] = Unknown /\ clOut.d["receiver"] = Unknown))

\* C15: clean_transaction never raises, whatever the shape of its input; when
\* a field rule fails, the returned record carries a cleaned sender (a phone
\* number in canonical form or 'Unknown') and a numeric amount.
C15_NeverRaisesAndDefaults ==
    /\ clPc # "raised"
    /\ clPc = "returned" =>
           /\ Get(clOut, "sender", Absent).t = "str"
           /\ Get(clOut, "amount", Absent).t \in {"int", "float", "nan", "inf", "ninf"}

\* C16: in the output of one batch every record has a non-empty Id and no two
\* records share an Id.
C16_IdsNonEmptyAndUnique ==
    tfPc = "returned" =>
        /\ \A i \in 1..Len(processed_transactions) :
               LET id == Get(processed_transactions[i], "Id", Absent)
               IN  IsStr(id) /\ id.s # <<>>
        /\ \A i, j \in 1..Len(processed_transactions) :
               i # j => Get(processed_transactions[i], "Id", Absent)
                            # Get(processed_transactions[j], "Id", Absent)

\* C17: categorize_transaction never modifies the record passed to it: after
\* the call the caller's record has the keys and values it had before.
C17_ArgumentUntouched ==
    catPc = "returned" => catArg = catIn

\* What transform makes of one input record: the record it appends, for each
\* clock reading, or nothing when a stage raises on it
Derivations(record) ==
    UNION {UNION {IF cleaned.raised THEN {}
                  ELSE {WithMetadata(categorized.result) :
                           categorized \in {c \in {categorize_transaction(cleaned.result)} :
                                               ~c.raised}} :
                     cleaned \in {clean_transaction(record, clock)}} :
              clock \in Clocks}

\* Derivations, tabulated over the records a batch is built from
DerivationsOf == [record \in RawRecords |-> Derivations(record)]

\* The positions, in increasing order, of the records of l that transform keeps
RECURSIVE KeptPositions(_, _)
KeptPositions(l, n) ==
    IF n = 0 THEN <<>>
    ELSE IF DerivationsOf[l[n]] = {} THEN KeptPositions(l, n - 1)
    ELSE Append(KeptPositions(l, n - 1), n)

\* C18: transform processes the records in input order and its output keeps
\* that order: the k-th record of the output derives from the k-th input
\* record that did not fail, so outputs stand in the order of their inputs.
C18_OutputInInputOrder ==
    tfPc \in {"loop", "returned"} =>
        \E kept \in {KeptPositions(rawGiven, tfIdx - 1)} :
            /\ Len(processed_transactions) = Len(kept)
            /\ \A k \in 1..Len(kept) :
                   processed_transactions[k] \in DerivationsOf[rawGiven[kept[k]]]

C18_Witness ==
    /\ tfPc = "returned"
    /\ Len(rawGiven) = 3 /\ rawGiven[1] = WellFormed /\ rawGiven[2] = NotADict
    /\ rawGiven[3] = Put(WellFormed, "amount", PyInt(1500))
    /\ Len(processed_transactions) = 2
    /\ processed_transactions[1] \in DerivationsOf[rawGiven[1]]
    /\ processed_transactions[2] \in DerivationsOf[rawGiven[3]]
    /\ processed_transactions[1] # processed_transactions[2]

-----------------------------------------------------------------------------
(* Record discovery and parsing: parse_sms_xml (dsa), ETLXMLParser (etl),  *)
(* ETLPipeline.extract.  A document is missing, malformed, or a tree of    *)
(* elements; an element has a tag, attributes and child elements, and no   *)
(* text of its own.                                                        *)

EmptyDict == Dict([k \in {} |-> None])

Element(tag, attrib, children) == [tag |-> tag, attrib |-> attrib, children |-> children]

\* element.findall(tag): the direct children with that tag, in document order
FindAll(element, tag) == SelectSeq(element.children, LAMBDA c : c.tag = tag)

\* The descendants of a list of elements, in document order
RECURSIVE Descendants(_)
Descendants(l) ==
    IF l = <<>> THEN <<>>
    ELSE <<Head(l)>> \o Descendants(Head(l).children) \o Descendants(Tail(l))

\* element.findall('.//' + tag)
FindAllDeep(element, tag) ==
    SelectSeq(Descendants(element.children), LAMBDA c : c.tag = tag)

\* a or b, on lists
ListOr(a, b) == IF a # <<>> THEN a ELSE b

\* parse_sms_xml: the elements it takes for records
sms_elements(root) ==
    IF root.tag \in {"sms", "transaction"} THEN <<root>>
    ELSE IF root.tag \in {"transactions", "data"}
        THEN ListOr(FindAll(root, "sms"), FindAll(root, "transaction"))
    ELSE ListOr(FindAllDeep(root, "sms"), FindAllDeep(root, "transaction"))

\* ETLXMLParser._find_sms_elements
_find_sms_elements(root) ==
    IF root.tag \in {"sms", "transaction"} THEN <<root>>
    ELSE IF root.tag \in {"smses", "transactions", "data"}
        THEN ListOr(FindAll(root, "sms"), FindAll(root, "transaction"))
    ELSE ListOr(FindAllDeep(root, "sms"), FindAllDeep(root, "transaction"))

\* The tags of the children of an element, each with the text None
ChildFields(sms) ==
    [k \in {sms.children[i].tag : i \in 1..Len(sms.children)} |-> None]

\* parse_sms_xml: raw, children first, attributes over them
DsaRaw(sms) == Dict(sms.attrib.d @@ ChildFields(sms))

\* raw.get(k1) or raw.get(k2) or ... or default
FirstTruthy(raw, keys, default) ==
    LET hit == {i \in 1..Len(keys) : ~Falsy(Get(raw, keys[i], None))}
    IN  IF hit = {} THEN default
        ELSE raw.d[keys[CHOOSE i \in hit : \A j \in hit : i <= j]]

core_keys ==
    {"Id", "id", "transaction_id", "transaction_type", "Type", "type", "amount",
     "Amount", "sender", "Sender", "receiver", "Receiver", "timestamp", "Timestamp"}

\* parse_sms_xml: normalized, for the record found after n others
DsaNormalized(raw, n) ==
    Dict([Id |-> IF "Id" \in DOMAIN raw.d THEN raw.d["Id"]
                 ELSE IF "id" \in DOMAIN raw.d THEN raw.d["id"]
                 ELSE IF "transaction_id" \in DOMAIN raw.d THEN raw.d["transaction_id"]
                 ELSE Str(<<"t","x","n","_">> \o NatToStr(n + 1)),
          transaction_type |->
              FirstTruthy(raw, <<"transaction_type", "Type", "type">>, Str(<<"U","N","K","N","O","W","N">>)),
          amount |-> FirstTruthy(raw, <<"amount", "Amount">>, Str(<<"0">>)),
          sender |-> FirstTruthy(raw, <<"sender", "Sender">>, Unknown),
          receiver |-> FirstTruthy(raw, <<"receiver", "Receiver">>, Unknown),
          timestamp |-> FirstTruthy(raw, <<"timestamp", "Timestamp">>, NowIso)]
         @@ [k \in DOMAIN raw.d \ core_keys |-> raw.d[k]])

\* parse_sms_xml: the loop over the first k elements
RECURSIVE DsaTransactions(_, _)
DsaTransactions(elements, k) ==
    IF k = 0 THEN <<>>
    ELSE Append(DsaTransactions(elements, k - 1), DsaNormalized(DsaRaw(elements[k]), k - 1))

\* What a parsing call gives: the list it returns or the exception it raises,
\* and how many times it ran ET.parse
Parsed(result, parses) == [raised |-> "", result |-> result, parses |-> parses]
ParseFailed(e, parses) == [raised |-> e, result |-> <<>>, parses |-> parses]

\* parse_sms_xml: every exception becomes the empty list
parse_sms_xml(doc) ==
    IF doc.kind = "tree"
        THEN \* bound once: the element list is used by every turn of the loop
             CHOOSE r \in {Parsed(DsaTransactions(found, Len(found)), 1) :
                              found \in {sms_elements(doc.root)}} : TRUE
    ELSE Parsed(<<>>, 1)

\* ETLXMLParser._parse_sms_element: raw_data, attributes first, children over them
EtlRaw(sms) == Dict(ChildFields(sms) @@ sms.attrib.d)

\* The _extract_* methods of ETLXMLParser: str(value).strip() of the first
\* field with a truthy value
ExtractFirst(raw_data, fields, default) ==
    LET found == FirstTruthy(raw_data, fields, None)
    IN  IF found = None THEN default ELSE Str(Strip(PyStr(found)))

\* f"TXN_{index + 1:06d}"
GeneratedId(index) ==
    LET digits == NatToStr(index + 1)
    IN  Str(<<"T","X","N","_">> \o SubSeq(<<"0","0","0","0","0","0">>, 1, 6 - Len(digits)) \o digits)

\* ETLXMLParser._extract_receiver: str(receiver_field).strip(), the name of the
\* field and not its value
_extract_receiver(raw_data) ==
    IF ~Falsy(Get(raw_data, "receiver", None)) THEN Str(<<"r","e","c","e","i","v","e","r">>)
    ELSE IF ~Falsy(Get(raw_data, "Receiver", None)) THEN Str(<<"R","e","c","e","i","v","e","r">>)
    ELSE IF ~Falsy(Get(raw_data, "to", None)) THEN Str(<<"t","o">>)
    ELSE Unknown

core_fields == {"Id", "transaction_type", "amount", "sender", "receiver", "timestamp", "body"}

\* ETLXMLParser._normalize_transaction_data
_normalize_transaction_data(raw_data, index) ==
    Dict([Id |-> ExtractFirst(raw_data, <<"Id", "id", "transaction_id", "txn_id">>,
                              GeneratedId(index)),
          transaction_type |->
              ExtractFirst(raw_data, <<"transaction_type", "Type", "type">>, Str(<<"U","N","K","N","O","W","N">>)),
          amount |-> ExtractFirst(raw_data, <<"amount", "Amount", "value">>, Str(<<"0">>)),
          sender |-> ExtractFirst(raw_data, <<"sender", "Sender", "from">>, Unknown),
          receiver |-> _extract_receiver(raw_data),
          timestamp |->
              ExtractFirst(raw_data, <<"timestamp", "Timestamp", "date", "Date">>, NowIso),
          body |-> Get(raw_data, "body", Str(<<>>))]
         @@ [k \in {x \in DOMAIN raw_data.d \ core_fields : raw_data.d[x] # None}
                |-> raw_data.d[k]])

\* ETLXMLParser._validate_transaction
EtlValid(transaction) ==
    \A field \in {"Id", "transaction_type", "amount", "sender", "receiver", "timestamp"} :
        field \in DOMAIN transaction.d /\ ~Falsy(transaction.d[field])

\* ETLXMLParser._parse_sms_element: the transaction, or NotADict for None
_parse_sms_element(sms, index) ==
    CHOOSE r \in {IF EtlValid(transaction) THEN transaction ELSE NotADict :
                     transaction \in {_normalize_transaction_data(EtlRaw(sms), index)}} : TRUE

\* ETLXMLParser._parse_xml_enhanced: the loop over the first k elements
RECURSIVE EtlTransactions(_, _)
EtlTransactions(elements, k) ==
    IF k = 0 THEN <<>>
    ELSE CHOOSE r \in {IF transaction = NotADict THEN EtlTransactions(elements, k - 1)
                       ELSE Append(EtlTransactions(elements, k - 1), transaction) :
                          transaction \in {_parse_sms_element(elements[k], k - 1)}} : TRUE

\* The elements _parse_sms_element turned down
Rejected(elements) ==
    Cardinality({k \in 1..Len(elements) : _parse_sms_element(elements[k], k - 1) = NotADict})

\* ETLXMLParser.parse_xml_file: what it gives, and stats as it leaves them
parse_xml_file(doc, dsa, parser_stats) ==
    IF doc.kind = "missing"
        THEN [call |-> ParseFailed("FileNotFoundError", 0),
              stats |-> [parser_stats EXCEPT !.parsing_errors = @ + 1]]
    ELSE IF dsa = "function" /\ parse_sms_xml(doc).result # <<>>
        THEN [call |-> parse_sms_xml(doc),
              stats |-> [parser_stats EXCEPT
                            !.parsed_successfully = Len(parse_sms_xml(doc).result)]]
    ELSE IF doc.kind = "malformed"
        THEN [call |-> ParseFailed("ParseError", IF dsa = "function" THEN 2 ELSE 1),
              stats |-> [parser_stats EXCEPT !.parsing_errors = @ + 1]]
    ELSE CHOOSE r \in
             {[call |-> Parsed(parsed, IF dsa = "function" THEN 2 ELSE 1),
               stats |-> [parser_stats EXCEPT
                             !.total_sms = Len(found),
                             !.validation_errors = @ + Rejected(found),
                             !.parsed_successfully = Len(parsed)]] :
                 found \in {_find_sms_elements(doc.root)},
                 parsed \in {EtlTransactions(_find_sms_elements(doc.root),
                                                   Len(_find_sms_elements(doc.root)))}} : TRUE

\* ETLPipeline.extract
extract(doc) ==
    IF doc.kind = "missing" THEN ParseFailed("FileNotFoundError", 0)
    ELSE IF parse_sms_xml(doc).result = <<>> THEN ParseFailed("ValueError", 1)
    ELSE parse_sms_xml(doc)

RecordTags == {"sms", "transaction"}
RootTags == {"sms", "transaction", "transactions", "smses", "data", "export"}
IdAttribute(id) == Dict([Id |-> Str(id)])

Grandchildren ==
    {<<>>, <<Element("sms", IdAttribute(<<"9">>), <<>>)>>,
     <<Element("transaction", EmptyDict, <<>>)>>}

\* Record elements with a name held by an attribute and by a child, with an
\* empty Id beside another alias, and with the receiver under the alias `to`
AliasElements ==
    {Element("sms", Dict([Id |-> Str(<<"7">>), body |-> Str(<<"h","i">>)]),
             <<Element("body", EmptyDict, <<>>)>>),
     Element("sms", Dict([Id |-> Str(<<>>), id |-> Str(<<"5">>)]), <<>>),
     Element("transaction", Dict([Id |-> Str(<<"8">>), to |-> Str(<<"0","7","8","8","1","2","3","4","5","6">>)]), <<>>)}

ChildElements ==
    {Element(tag, attrib, below) :
        tag \in RecordTags \cup {"group"}, attrib \in {EmptyDict, IdAttribute(<<"7">>)},
        below \in Grandchildren}
    \cup AliasElements

Documents ==
    {[kind |-> "missing", root |-> NoRoot], [kind |-> "malformed", root |-> NoRoot]}
        \cup {[kind |-> "tree", root |-> Element(tag, EmptyDict, children)] :
                 tag \in RootTags, children \in ListsOf(ChildElements, MaxChildren)}

InitParse ==
    /\ xmlDoc \in Documents
    /\ dsa_parse_sms_xml \in {"function", "None"}
    /\ pxCall = "none"
    /\ pxOut = <<>>
    /\ pxErr = ""
    /\ pxParses = 0
    /\ parserStats = NewParserStats
    /\ pxPc = "start"
    /\ IdleAmount /\ IdlePhone /\ IdleCat /\ IdleClean /\ IdleBatch /\ IdleEtl /\ IdleType
    /\ IdleStore /\ IdleRun

\* A call of parse_sms_xml on the document
ParseSmsXml ==
    /\ pxPc = "start"
    /\ pxCall' = "parse_sms_xml"
    /\ \E call \in {parse_sms_xml(xmlDoc)} :
           /\ pxOut' = call.result
           /\ pxErr' = call.raised
           /\ pxParses' = call.parses
           /\ pxPc' = IF call.raised = "" THEN "returned" ELSE "raised"
    /\ UNCHANGED <<xmlDoc, dsa_parse_sms_xml, parserStats,
                   varsAmount, varsPhone, varsCat, varsClean, varsBatch, varsEtl, varsType,
                   varsStore, varsRun>>

\* A call of ETLXMLParser.parse_xml_file on the document
ParseXmlFile ==
    /\ pxPc = "start"
    /\ pxCall' = "parse_xml_file"
    /\ \E outcome \in {parse_xml_file(xmlDoc, dsa_parse_sms_xml, parserStats)} :
           /\ pxOut' = outcome.call.result
           /\ pxErr' = outcome.call.raised
           /\ pxParses' = outcome.call.parses
           /\ parserStats' = outcome.stats
           /\ pxPc' = IF outcome.call.raised = "" THEN "returned" ELSE "raised"
    /\ UNCHANGED <<xmlDoc, dsa_parse_sms_xml,
                   varsAmount, varsPhone, varsCat, varsClean, varsBatch, varsEtl, varsType,
                   varsStore, varsRun>>

\* A call of ETLPipeline.extract with the document as XML_INPUT_FILE
Extract ==
    /\ pxPc = "start"
    /\ pxCall' = "extract"
    /\ \E call \in {extract(xmlDoc)} :
           /\ pxOut' = call.result
           /\ pxErr' = call.raised
           /\ pxParses' = call.parses
           /\ stats' = IF call.raised = "" THEN stats
                       ELSE [stats EXCEPT !.errors = Append(@, call.raised)]
           /\ pxPc' = IF call.raised = "" THEN "returned" ELSE "raised"
    /\ UNCHANGED <<xmlDoc, dsa_parse_sms_xml, parserStats,
                   rawGiven, raw_transactions, processed_transactions, tfIdx, tfPc,
                   varsAmount, varsPhone, varsCat, varsClean, varsBatch, varsType,
                   varsStore, varsRun>>

NextParse == ParseSmsXml \/ ParseXmlFile \/ Extract

SpecParse == InitParse /\ [][NextParse]_vars


\* The elements the stated precedence names: the root when it is a record
\* element; else, under a container root, every direct child that is a
\* record element, in document order; else what the recursive search finds
PrecedenceElements(root, containers) ==
    IF root.tag \in RecordTags THEN <<root>>
    ELSE IF root.tag \in containers
        THEN SelectSeq(root.children, LAMBDA c : c.tag \in RecordTags)
    ELSE ListOr(FindAllDeep(root, "sms"), FindAllDeep(root, "transaction"))

\* C19: record discovery follows the precedence root record, then the direct
\* record children of a container root ('sms' and 'transaction' alike, in
\* document order), then the recursive search: the records returned are the
\* records of exactly those elements.
C19_DiscoveryPrecedence ==
    pxPc = "returned" /\ xmlDoc.kind = "tree" =>
        /\ pxCall = "parse_sms_xml" =>
               \E found \in {PrecedenceElements(xmlDoc.root, {"transactions", "data"})} :
                   pxOut = DsaTransactions(found, Len(found))
        /\ pxCall = "parse_xml_file" /\ dsa_parse_sms_xml = "None" =>
               \E found \in {PrecedenceElements(xmlDoc.root, {"smses", "transactions", "data"})} :
                   pxOut = EtlTransactions(found, Len(found))

\* C20: when the document is malformed XML, the call raises and the
\* document was parsed once only.
C20_MalformedRaisesOnce ==
    xmlDoc.kind = "malformed" /\ pxPc # "start" =>
        pxPc = "raised" /\ pxParses = 1

-----------------------------------------------------------------------------
(* InMemoryStore and the handlers of TransactionsHandler that change it.  *)
(* A record is an object: the list and the index hold identities, numbers *)
(* into `objects`, so that an update through the index shows in the list. *)

\* Most record objects the store is given and creates.
MaxRecords == 3

\* str(value or "").strip()
StoreKey(value) == IF Falsy(value) THEN <<>> ELSE Strip(PyStr(value))

\* f"TXN_{self.next_numeric_suffix:06d}"
StoreId(suffix) ==
    LET digits == NatToStr(suffix)
    IN  <<"T","X","N","_">> \o SubSeq(<<"0","0","0","0","0","0">>, 1, 6 - Len(digits)) \o digits

\* int(txn_id.split("_", 1)[1]) for an id that starts with "TXN_", 0 when int raises
NumericSuffix(txn_id) ==
    IF StartsWith(txn_id, <<"T","X","N","_">>) /\ IsDigitString(SubSeq(txn_id, 5, Len(txn_id)))
        THEN StrToNat(SubSeq(txn_id, 5, Len(txn_id)))
    ELSE 0

Max(a, b) == IF a >= b THEN a ELSE b

NewStore ==
    [objects |-> <<>>, transactions |-> <<>>, id_map |-> [k \in {} |-> 0],
     next_numeric_suffix |-> 1, max_suffix |-> 0]

\* InMemoryStore.load: the loop over the first k records read
RECURSIVE LoadRecords(_, _)
LoadRecords(given, k) ==
    IF k = 0 THEN NewStore
    ELSE CHOOSE r \in
        {LET txn_id == StoreKey(FirstTruthy(given[k], <<"Id", "id">>, Str(<<>>)))
             key == IF txn_id = <<>> THEN StoreId(s.next_numeric_suffix) ELSE txn_id
         IN  [objects |-> Append(s.objects,
                                 IF txn_id = <<>> THEN Put(given[k], "Id", Str(key))
                                 ELSE given[k]),
              transactions |-> Append(s.transactions, k),
              id_map |-> (key :> k) @@ s.id_map,
              next_numeric_suffix |->
                  IF txn_id = <<>> THEN s.next_numeric_suffix + 1 ELSE s.next_numeric_suffix,
              max_suffix |-> Max(s.max_suffix, NumericSuffix(key))] :
            s \in {LoadRecords(given, k - 1)}} : TRUE

\* InMemoryStore.load
load(given) ==
    CHOOSE r \in {[s EXCEPT !.next_numeric_suffix = s.max_suffix + 1] :
                     s \in {LoadRecords(given, Len(given))}} : TRUE

\* The records of the list, as persist writes them and list() returns them
Listed(objs, list) == [i \in 1..Len(list) |-> objs[list[i]]]

\* InMemoryStore.create: `not txn_id or txn_id in self.id_map`
NeedsNewId(payload, index) ==
    \/ StoreKey(Get(payload, "Id", None)) = <<>>
    \/ StoreKey(Get(payload, "Id", None)) \in DOMAIN index

\* InMemoryStore.create: the txn_id the new record gets
CreatedId(payload, index, suffix) ==
    IF NeedsNewId(payload, index) THEN StoreId(suffix)
    ELSE StoreKey(Get(payload, "Id", None))

\* The bodies of the requests
StorePayloads ==
    {MkDict([Id |-> i, amount |-> a]) :
        i \in {Absent, Str(<<"T","X","N","_","0","0","0","0","0","1">>), Str(<<"A">>), Str(<<" ","A">>)},
        a \in {Absent, Str(<<"5","0","0">>)}}

\* The txn_id of the paths /transactions/<txn_id>
StoreKeys == {<<"T","X","N","_","0","0","0","0","0","1">>, <<"T","X","N","_","0","0","0","0","0","2">>, <<"A">>}

\* The records of the file load reads
StoredRecords ==
    {MkDict([Id |-> Str(<<"T","X","N","_","0","0","0","0","0","1">>)]), MkDict([Id |-> Str(<<"A">>)]),
     MkDict([Id |-> Str(<<" ","A"," ">>)]), MkDict([id |-> Str(<<"A">>)]),
     MkDict([amount |-> Str(<<"1","0","0">>)])}

InitStore ==
    /\ stGiven \in ListsOf(StoredRecords, MaxRecords - 1)
    /\ \E s \in {load(stGiven)} :
           /\ objects = s.objects
           /\ store_transactions = s.transactions
           /\ id_map = s.id_map
           /\ next_numeric_suffix = s.next_numeric_suffix
    /\ persisted = <<>>
    /\ stOp = "load"
    /\ stKey = <<>>
    /\ stStatus = 0
    /\ stPc = "serving"
    /\ IdleAmount /\ IdlePhone /\ IdleCat /\ IdleClean /\ IdleBatch /\ IdleEtl /\ IdleType
    /\ IdleParse /\ IdleRun

\* do_POST on /transactions: store.create(payload), store.persist(), 201
DoPost ==
    /\ stPc = "serving"
    /\ Len(objects) < MaxRecords
    /\ \E payload \in StorePayloads :
       \E txn_id \in {CreatedId(payload, id_map, next_numeric_suffix)} :
           /\ objects' = Append(objects, Put(payload, "Id", Str(txn_id)))
           /\ store_transactions' = Append(store_transactions, Len(objects) + 1)
           /\ id_map' = (txn_id :> (Len(objects) + 1)) @@ id_map
           /\ next_numeric_suffix' =
                  IF NeedsNewId(payload, id_map) THEN next_numeric_suffix + 1
                  ELSE next_numeric_suffix
           /\ persisted' = Listed(objects', store_transactions')
           /\ stKey' = txn_id
    /\ stOp' = "POST"
    /\ stStatus' = 201
    /\ UNCHANGED <<stGiven, stPc,
                   varsAmount, varsPhone, varsCat, varsClean, varsBatch, varsEtl, varsType,
                   varsParse, varsRun>>

\* InMemoryStore.update: existing with the entries of payload, "Id" left out
Updated(existing, payload) ==
    Dict([k \in DOMAIN payload.d \ {"Id"} |-> payload.d[k]] @@ existing.d)

\* do_PUT on /transactions/<txn_id>: store.update, then persist and 200, or 404
DoPut ==
    /\ stPc = "serving"
    /\ \E txn_id \in StoreKeys, payload \in StorePayloads :
           /\ stKey' = txn_id
           /\ IF txn_id \in DOMAIN id_map
                  THEN /\ objects' = [objects EXCEPT ![id_map[txn_id]] = Updated(@, payload)]
                       /\ persisted' = Listed(objects', store_transactions)
                       /\ stStatus' = 200
                  ELSE /\ stStatus' = 404
                       /\ UNCHANGED <<objects, persisted>>
    /\ stOp' = "PUT"
    /\ UNCHANGED <<stGiven, store_transactions, id_map, next_numeric_suffix, stPc,
                   varsAmount, varsPhone, varsCat, varsClean, varsBatch, varsEtl, varsType,
                   varsParse, varsRun>>

\* WithoutId taking out the first record with that Id only
WithoutFirstWithId(objs, list, txn_id) ==
    LET hit == {i \in 1..Len(list) : Get(objs[list[i]], "Id", None) = Str(txn_id)}
    IN  IF hit = {} THEN list
        ELSE LET first == CHOOSE i \in hit : \A j \in hit : i <= j
             IN  SubSeq(list, 1, first - 1) \o SubSeq(list, first + 1, Len(list))

\* InMemoryStore.delete: [t for t in self.transactions if t.get("Id") != txn_id]
WithoutId(objs, list, txn_id) ==
    SelectSeq(list, LAMBDA o : Get(objs[o], "Id", None) # Str(txn_id))

\* do_DELETE on /transactions/<txn_id>: store.delete, then persist and 204, or 404
DoDelete ==
    /\ stPc = "serving"
    /\ \E txn_id \in StoreKeys :
           /\ stKey' = txn_id
           /\ IF txn_id \in DOMAIN id_map
                  THEN /\ store_transactions' = WithoutId(objects, store_transactions, txn_id)
                       /\ id_map' = [k \in DOMAIN id_map \ {txn_id} |-> id_map[k]]
                       /\ persisted' = Listed(objects, store_transactions')
                       /\ stStatus' = 204
                  ELSE /\ stStatus' = 404
                       /\ UNCHANGED <<store_transactions, id_map, persisted>>
    /\ stOp' = "DELETE"
    /\ UNCHANGED <<stGiven, objects, next_numeric_suffix, stPc,
                   varsAmount, varsPhone, varsCat, varsClean, varsBatch, varsEtl, varsType,
                   varsParse, varsRun>>

NextStore == DoPost \/ DoPut \/ DoDelete

SpecStore == InitStore /\ [][NextStore]_vars

\* The Id entries of the listed records, in list order
ListedIds == [i \in 1..Len(store_transactions) |->
                 Get(objects[store_transactions[i]], "Id", Absent)]

\* The store load left had no two records with the same Id
LoadedDistinct ==
    \E s \in {load(stGiven)} :
        \A i, j \in 1..Len(s.objects) :
            i # j => Get(s.objects[i], "Id", Absent) # Get(s.objects[j], "Id", Absent)

\* C21: starting from a store with distinct Ids, after any sequence of
\* create, update and delete calls no two records of the transaction list
\* share an Id.
C21_NoSharedId ==
    LoadedDistinct =>
        \A i, j \in 1..Len(ListedIds) : i # j => ListedIds[i] # ListedIds[j]

-----------------------------------------------------------------------------
(* The scoring of _determine_category, checked under SpecCat.              *)

\* The call reached the scoring stages: a dict with a string body that
\* carries no type signature, a string type and a numeric amount
catScored ==
    /\ catPc = "returned"
    /\ IsDict(catIn) /\ IsStr(catBody) /\ IsStr(catType) /\ IsNumber(catAmount)
    /\ FirstTypeSignature(catBody.s) = 0

\* How many texts of a list occur in the body, case ignored
HitsIn(texts) ==
    Cardinality({j \in 1..Len(texts) : Contains(Lower(catBody.s), Lower(texts[j]))})

\* The score a category is said to get from its patterns and keywords, in
\* units of 1/ScoreScale
SaidBase(cid) ==
    ((2 * HitsIn(categories[cid].patterns) + HitsIn(categories[cid].keywords))
        * ScoreScale) \div (2 * Len(categories[cid].patterns))
SaidHit(cid) ==
    HitsIn(categories[cid].patterns) + HitsIn(categories[cid].keywords) > 0

\* The amount bonus as stated (every amount up to 5000) and as the positive
\* amounts up to 5000 only
SaidAmountBonus(cid, positive) ==
    \/ cid = 1 /\ NumLE(catAmount, 5000) /\ (positive => ~NumLE(catAmount, 0))
    \/ cid = 4 /\ NumGE(catAmount, 50000)
SaidTypeBonus(cid) ==
    cid = _categorize_by_transaction_type(Upper(catType.s))

SaidScore(cid, positive) ==
    (IF SaidHit(cid) THEN SaidBase(cid) ELSE 0)
    + (IF SaidAmountBonus(cid, positive) THEN (2 * ScoreScale) \div 10 ELSE 0)
    + (IF SaidTypeBonus(cid) THEN ScoreScale \div 10 ELSE 0)
SaidScored(positive) ==
    {cid \in 1..Len(categories) :
        SaidHit(cid) \/ SaidAmountBonus(cid, positive) \/ SaidTypeBonus(cid)}

\* The returned category is one of the scored ones with the greatest score
\* and the returned confidence is that score clamped to 1.0
ScoredAsSaid(positive) ==
    SaidScored(positive) # {} =>
        \E cid \in SaidScored(positive) :
            /\ catOut.d["category_id"] = PyInt(cid)
            /\ \A other \in SaidScored(positive) :
                   SaidScore(other, positive) <= SaidScore(cid, positive)
            /\ catOut.d["categorization_confidence"]
                   = Conf(Min(SaidScore(cid, positive), ScoreScale))

\* C22 as stated: with no type signature in the body, each category scores
\* (patterns x 1.0 + keywords x 0.5) / (number of its patterns) if anything
\* of it matched, plus 0.2 for category 1 when amount <= 5000 or category 4
\* when amount >= 50000, plus 0.1 for the category of the type table; a bonus
\* for a category without a score becomes its score, and the confidence is
\* the chosen category's score clamped to 1.0.
C22_ScoresAsStated == catScored => ScoredAsSaid(FALSE)

\* C22, amended: the same, the 0.2 for category 1 being given only when
\* 0 < amount <= 5000; an amount of zero or less brings no bonus.
C22_ScoresPositiveAmount == catScored => ScoredAsSaid(TRUE)

\* A body with a School Fees hit and an amount of 60000: the bonus is added
\* to the score the patterns gave
C22_Witness ==
    /\ catScored
    /\ SaidHit(4) /\ SaidAmountBonus(4, TRUE)
    /\ catOut.d["category_id"] = PyInt(4)
    /\ catOut.d["categorization_confidence"]
           = Conf(SaidBase(4) + (2 * ScoreScale) \div 10)

-----------------------------------------------------------------------------
(* The rule order of _clean_timestamp, checked under SpecClean.            *)

\* The timestamp given and the text of it the rules look at
clTimestamp == Get(clIn, "timestamp", Absent)
clTimestampText == Strip(PyStr(clTimestamp))

\* The call came back with a timestamp that _clean_timestamp wrote
clTimestampCleaned ==
    /\ clPc = "returned" /\ IsDict(clIn) /\ IsStr(clTimestamp)
    /\ Get(clOut, "timestamp", Absent).t = "iso"

\* None of the epoch and ISO rules parses the text
EarlierRulesFail ==
    /\ ~(IsDigitString(clTimestampText) /\ Len(clTimestampText) \in {10, 13})
    /\ ~IsoParses(RemoveChar(clTimestampText, "Z"))

\* The text holds a date-time of one of the three forms that strptime accepts
HoldsDateTime ==
    \E k \in 1..Len(date_patterns) : \E p \in 1..Len(clTimestampText) :
        DateAt(k, clTimestampText, p) /\ DateParses(k, clTimestampText, p)

\* C23: _clean_timestamp applies its rules in the order epoch milliseconds,
\* epoch seconds, ISO-8601, date/time patterns, and falls back to the
\* processing time only if every rule fails: an input holding a date-time of
\* one of the three forms that the earlier rules did not parse is rendered as
\* that date-time, not as the current time.
C23_DateTimeNotLostToNow ==
    /\ clTimestampCleaned /\ IsDigitString(clTimestampText) /\ Len(clTimestampText) = 13
           => clOut.d["timestamp"].e = "epoch_ms"
    /\ clTimestampCleaned /\ IsDigitString(clTimestampText) /\ Len(clTimestampText) = 10
           => clOut.d["timestamp"].e = "epoch_s"
    /\ clTimestampCleaned /\ EarlierRulesFail /\ HoldsDateTime
           => clOut.d["timestamp"] = Iso("date_pattern", clTimestampText)

-----------------------------------------------------------------------------
(* The raw record and the Id of a record, checked under SpecParse.         *)

\* parse_sms_xml served the call: called directly, through extract, or by
\* parse_xml_file when the import gave the function and it found records
ServedByDsa ==
    \/ pxCall \in {"parse_sms_xml", "extract"}
    \/ /\ pxCall = "parse_xml_file" /\ dsa_parse_sms_xml = "function"
       /\ parse_sms_xml(xmlDoc).result # <<>>

\* The elements behind the records returned, in the order of the records (no
\* element of the documents is turned down by _parse_sms_element)
pxElements ==
    IF ServedByDsa THEN sms_elements(xmlDoc.root) ELSE _find_sms_elements(xmlDoc.root)
pxRecordsReturned ==
    /\ pxPc = "returned" /\ xmlDoc.kind = "tree"
    /\ Len(pxOut) = Len(pxElements)

\* The names an element holds both as an attribute and as a child
SharedNames(sms) ==
    DOMAIN sms.attrib.d \cap {sms.children[i].tag : i \in 1..Len(sms.children)}

\* C24: the raw record merges the attributes first and the direct children
\* second: for a name held by an attribute and by a child, the record holds
\* the child's text (null for the empty children of the documents), not the
\* attribute's value.
C24_ChildOverAttribute ==
    pxRecordsReturned =>
        \A i \in 1..Len(pxOut) : \A k \in SharedNames(pxElements[i]) \ core_keys :
            Get(pxOut[i], k, None) = None


\* The first of the alias keys Id, id, transaction_id that an element's
\* attributes hold with a non-empty value; 0 when none does
id_aliases == <<"Id", "id", "transaction_id">>
FirstIdAlias(sms) ==
    LET hit == {j \in 1..Len(id_aliases) :
                   /\ id_aliases[j] \in DOMAIN sms.attrib.d
                   /\ ~Falsy(sms.attrib.d[id_aliases[j]])}
    IN  IF hit = {} THEN 0 ELSE CHOOSE j \in hit : \A other \in hit : j <= other

\* An Id one of the parsers generates for the record at place i
GeneratedIds(i) == {Str(<<"t","x","n","_">> \o NatToStr(i)), GeneratedId(i - 1)}

\* C25: a record's Id is the first non-empty value among the alias keys Id,
\* id, transaction_id, in that order: an alias present but empty is skipped,
\* and an Id is generated only when no alias holds a non-empty value.
C25_FirstNonEmptyAlias ==
    pxRecordsReturned =>
        \A i \in 1..Len(pxOut) :
            \E j \in {FirstIdAlias(pxElements[i])} :
                IF j = 0 THEN Get(pxOut[i], "Id", Absent) \in GeneratedIds(i)
                ELSE Get(pxOut[i], "Id", Absent) = pxElements[i].attrib.d[id_aliases[j]]


\* C26: after load and after any sequence of create, update and delete
\* calls the index and the list agree: the keys of id_map are the Ids of the
\* listed records, and id_map[k] is a listed record whose Id is k.
C26_IndexAgreesWithList ==
    stPc = "serving" =>
        /\ {Str(k) : k \in DOMAIN id_map} = {ListedIds[i] : i \in 1..Len(ListedIds)}
        /\ \A k \in DOMAIN id_map :
               /\ \E i \in 1..Len(store_transactions) : store_transactions[i] = id_map[k]
               /\ Get(objects[id_map[k]], "Id", Absent) = Str(k)


\* The listed records of the next state
ListedNext == Listed(objects', store_transactions')

-----------------------------------------------------------------------------
(* ETLPipeline.run: one pipeline object, run again and again on the file   *)
(* XML_INPUT_FILE names at the time.  runStats is self.stats.              *)

\* Most calls of run on one pipeline.
MaxRuns == 3

\* datetime.now().isoformat() as the text a later stage reads, taken at a
\* whole second
NowText == Str(<<"2","0","2","4","-","0","5","-","1","0","T","1","6",":","3","0",":","5","1">>)

\* A record of the parser as the transform stage reads it
AsRead(record) ==
    Dict([k \in DOMAIN record.d |-> IF record.d[k] = NowIso THEN NowText ELSE record.d[k]])

\* An entry of stats["errors"]: its prefix and, for a record, its index
ErrorEntry(prefix, index) == [prefix |-> prefix, index |-> index]

\* transform counting as failed a record the cleaner returns flagged as not
\* valid, as if the cleaner raised on it
RECURSIVE transformRejectsInvalid(_, _, _)
transformRejectsInvalid(raw, k, clock) ==
    IF k = 0 THEN [processed |-> 0, failed |-> 0, errors |-> <<>>]
    ELSE CHOOSE r \in
        {IF \/ cleaned.raised
            \/ Get(cleaned.result, "_validation", Validation(TRUE, <<>>)).n = 0
            \/ categorize_transaction(cleaned.result).raised
             THEN [processed |-> before.processed,
                   failed |-> before.failed + 1,
                   errors |-> Append(before.errors, ErrorEntry("Transaction", k - 1))]
         ELSE [before EXCEPT !.processed = @ + 1] :
            before \in {transformRejectsInvalid(raw, k - 1, clock)},
            cleaned \in {clean_transaction(AsRead(raw[k]), clock)}} : TRUE

\* ETLPipeline.transform on the first k records: how many records it
\* returns, and what it adds to failed and to errors
RECURSIVE transform(_, _, _)
transform(raw, k, clock) ==
    IF k = 0 THEN [processed |-> 0, failed |-> 0, errors |-> <<>>]
    ELSE CHOOSE r \in
        {IF cleaned.raised \/ categorize_transaction(cleaned.result).raised
             THEN [processed |-> before.processed,
                   failed |-> before.failed + 1,
                   errors |-> Append(before.errors, ErrorEntry("Transaction", k - 1))]
         ELSE [before EXCEPT !.processed = @ + 1] :
            before \in {transform(raw, k - 1, clock)},
            cleaned \in {clean_transaction(AsRead(raw[k]), clock)}} : TRUE

\* The documents XML_INPUT_FILE holds at a run
RunElements ==
    {Element("sms", IdAttribute(<<"7">>), <<>>), Element("group", EmptyDict, <<>>)}
        \cup AliasElements
RunDocuments ==
    {[kind |-> "missing", root |-> NoRoot], [kind |-> "malformed", root |-> NoRoot]}
        \cup {[kind |-> "tree", root |-> Element("transactions", EmptyDict, children)] :
                 children \in ListsOf(RunElements, MaxChildren)}

\* What extract and transform give on each document
RunOutcomes ==
    [doc \in RunDocuments |->
        [clock \in Clocks |->
            CHOOSE r \in {[raised |-> call.raised, total |-> Len(call.result),
                           transformed |-> transform(call.result, Len(call.result), clock)] :
                             call \in {extract(doc)}} : TRUE]]

InitRun ==
    /\ runStats = NewRunStats
    /\ runCount = 0
    /\ runReturned = FALSE
    /\ runPc = "ready"
    /\ IdleAmount /\ IdlePhone /\ IdleCat /\ IdleClean /\ IdleBatch /\ IdleEtl /\ IdleType
    /\ IdleParse /\ IdleStore

\* run when validate_pipeline returns False (the input file is missing, or
\* the configuration is not valid for another reason): nothing is counted
RunNotValid ==
    /\ runPc \in {"ready", "returned"} /\ runCount < MaxRuns
    /\ xmlDoc' \in RunDocuments
    /\ runCount' = runCount + 1
    /\ runReturned' = FALSE
    /\ runPc' = "returned"
    /\ UNCHANGED <<runStats, dsa_parse_sms_xml, pxCall, pxOut, pxErr, pxParses, parserStats,
                   pxPc, varsAmount, varsPhone, varsCat, varsClean, varsBatch, varsEtl,
                   varsType, varsStore>>

\* run when extract raises on the file validate_pipeline saw: the error is
\* entered by extract and by run
RunExtractFails ==
    /\ runPc \in {"ready", "returned"} /\ runCount < MaxRuns
    /\ \E doc \in RunDocuments, clock \in Clocks :
           /\ doc.kind # "missing"
           /\ RunOutcomes[doc][clock].raised # ""
           /\ xmlDoc' = doc
           /\ runStats' = [runStats EXCEPT
                  !.errors = @ \o <<ErrorEntry("Extraction", -1), ErrorEntry("Pipeline", -1)>>]
    /\ runCount' = runCount + 1
    /\ runReturned' = FALSE
    /\ runPc' = "returned"
    /\ UNCHANGED <<dsa_parse_sms_xml, pxCall, pxOut, pxErr, pxParses, parserStats, pxPc,
                   varsAmount, varsPhone, varsCat, varsClean, varsBatch, varsEtl,
                   varsType, varsStore>>

\* run through extract and transform, with load skipped (dry_run),
\* succeeding, or failing
RunTransforms ==
    /\ runPc \in {"ready", "returned"} /\ runCount < MaxRuns
    /\ \E doc \in RunDocuments, clock \in Clocks, dry_run \in BOOLEAN, loaded \in BOOLEAN :
       \E outcome \in {RunOutcomes[doc][clock]} :
           /\ outcome.raised = ""
           /\ xmlDoc' = doc
           /\ runStats' =
                  [total_processed |-> outcome.total,
                   successful |-> outcome.transformed.processed,
                   failed |-> runStats.failed + outcome.transformed.failed,
                   errors |-> runStats.errors \o outcome.transformed.errors
                                 \o (IF ~dry_run /\ ~loaded
                                     THEN <<ErrorEntry("Loading", -1)>> ELSE <<>>)]
           /\ runReturned' = (dry_run \/ loaded)
    /\ runCount' = runCount + 1
    /\ runPc' = "returned"
    /\ UNCHANGED <<dsa_parse_sms_xml, pxCall, pxOut, pxErr, pxParses, parserStats, pxPc,
                   varsAmount, varsPhone, varsCat, varsClean, varsBatch, varsEtl,
                   varsType, varsStore>>

NextRun == RunNotValid \/ RunExtractFails \/ RunTransforms

SpecRun == InitRun /\ [][NextRun]_vars


\* The entries of stats["errors"] that transform wrote for a record
TransactionEntries ==
    Cardinality({i \in 1..Len(runStats.errors) : runStats.errors[i].prefix = "Transaction"})

\* C28: after any number of run() calls on one pipeline the counters are
\* consistent: successful + failed = total_processed, and the entries of
\* stats.errors written for single transactions are as many as failed.
C28_CountersConsistent ==
    runPc = "returned" =>
        /\ runStats.successful + runStats.failed = runStats.total_processed
        /\ TransactionEntries = runStats.failed

\* A third run that processed two records, after a run whose extraction
\* failed
C28_Witness ==
    /\ runPc = "returned" /\ runCount = 3 /\ runReturned
    /\ runStats.total_processed = 2 /\ runStats.successful = 2
    /\ Len(runStats.errors) = 2 /\ runStats.errors[1].prefix = "Extraction"


\* The trimmed value of the first of the named attributes of an element that
\* holds a non-empty value, or 'Unknown'
FirstValueOf(sms, names) ==
    LET hit == {j \in 1..Len(names) :
                   names[j] \in DOMAIN sms.attrib.d /\ ~Falsy(sms.attrib.d[names[j]])}
    IN  IF hit = {} THEN Unknown
        ELSE Str(Strip(PyStr(sms.attrib.d[names[CHOOSE j \in hit : \A other \in hit : j <= other]])))

\* C29: in ETLXMLParser the receiver of a record is the trimmed value of the
\* first non-empty field among receiver, Receiver, to, exactly as the sender
\* is the value of the first non-empty field among sender, Sender, from, and
\* 'Unknown' only when none of them is non-empty.
C29_ReceiverIsTheValue ==
    pxRecordsReturned /\ ~ServedByDsa =>
        \A i \in 1..Len(pxOut) :
            /\ Get(pxOut[i], "receiver", Absent)
                   = FirstValueOf(pxElements[i], <<"receiver", "Receiver", "to">>)
            /\ Get(pxOut[i], "sender", Absent)
                   = FirstValueOf(pxElements[i], <<"sender", "Sender", "from">>)


\* C30: for every document the DSA parser and the enhanced ETL parser
\* discover the same record elements in the same order, so the records
\* parse_xml_file returns do not depend on which of the two served the call.
C30_SameWhicheverParser ==
    pxPc = "returned" /\ pxCall = "parse_xml_file" /\ xmlDoc.kind = "tree" =>
        /\ sms_elements(xmlDoc.root) = _find_sms_elements(xmlDoc.root)
        /\ pxOut = parse_xml_file(xmlDoc, "function", NewParserStats).call.result
        /\ pxOut = parse_xml_file(xmlDoc, "None", NewParserStats).call.result

=============================================================================
